---------------------------- MODULE Spec2Model ----------------------------
(***************************************************************************)
(* Energy-Storage-Location-Evaluator: the weight validator, the static and *)
(* mobile infrastructure evaluators, the census aggregator, the            *)
(* critical-zone evaluator, the normalization and weighting engine and the *)
(* final score aggregator, as driven by processAlgorithm.                  *)
(*                                                                         *)
(* Numbers.  Python floats are modelled as fixed-point numbers: a weight   *)
(* or a normalized score x is the integer x * Unit.  Addition and          *)
(* subtraction are exact; a product or a quotient is rounded to the        *)
(* nearest multiple of 1/Unit, as an IEEE-754 operation is rounded to the  *)
(* nearest double.  Census values and zone scores are fixed-point too;     *)
(* distances, durations, raw infrastructure scores (which enter the scores *)
(* only through a ratio) and outage costs are whole numbers.               *)
(***************************************************************************)
EXTENDS Integers, Sequences, FiniteSets, TLC

\* ------------------------------------------------------------------ bounds

\* Longest infrastructure weight string the weight-validator runs read,
\* counted in pieces (a literal, a comma, or a non-numeric letter).
MaxInfraStr == 3

\* Longest census weight string the weight-validator runs read.
MaxCensusStr == 1
\* The largest number of runs of calculate_final_scores on one candidate list.
MaxFinalRuns == 2

\* ------------------------------------------------------------- arithmetic

\* 1.0 in fixed point.
Unit == 10000

\* 0.999 and 1.001, the accepted range of the weight total.
TolLow == 9990
TolHigh == 10010

\* float('inf'), the sentinel of an unusable mobile score.
Inf == 1000000000

Abs(x) == IF x < 0 THEN -x ELSE x

\* a / b for b > 0, rounded to the nearest integer (ties away from zero).
RoundDiv(a, b) ==
    IF a >= 0 THEN (2 * a + b) \div (2 * b)
    ELSE -((2 * (-a) + b) \div (2 * b))

\* x * y of two fixed-point numbers.
FMul(x, y) == RoundDiv(x * y, Unit)

\* x / y of two fixed-point numbers (or of two whole numbers), y > 0,
\* as a fixed-point number.
FDiv(x, y) == RoundDiv(x * Unit, y)

Min2(a, b) == IF a <= b THEN a ELSE b
Max2(a, b) == IF a >= b THEN a ELSE b

RECURSIVE SumSeq(_)
\* Python's sum(list): 0 + s[1] + s[2] + ...
SumSeq(s) == IF s = <<>> THEN 0 ELSE SumSeq(SubSeq(s, 1, Len(s) - 1)) + s[Len(s)]

\* ------------------------------------------------------ ordered dictionary
\* A Python dict keeps insertion order: keys is the order, val the mapping.

EmptyDict == [keys |-> <<>>, val |-> <<>>]

DictHas(d, k) == \E i \in 1..Len(d.keys) : d.keys[i] = k

DictIndex(d, k) == CHOOSE i \in 1..Len(d.keys) : d.keys[i] = k

\* d.get(k, default)
DictGet(d, k, default) == IF DictHas(d, k) THEN d.val[DictIndex(d, k)] ELSE default

\* d[k] = v
DictSet(d, k, v) ==
    IF DictHas(d, k)
    THEN [d EXCEPT !.val[DictIndex(d, k)] = v]
    ELSE [keys |-> Append(d.keys, k), val |-> Append(d.val, v)]

\* list(d.values())
DictValues(d) == d.val

\* ---------------------------------------------------------- weight strings
\* A parameter string is a sequence of pieces: a numeric literal, the comma,
\* or a letter.  "0.3,0.3" is <<"0.3", ",", "0.3">>, "" is <<>>.

Comma == ","

\* float(literal) of the literals the runs use, in fixed point.
FloatTable ==
    [lit \in {"0.3", "0.4", "0.5", "0.298", "0.3335", "1.0", "-0.5", "0.2"} |->
        CASE lit = "0.3" -> 3000
          [] lit = "0.4" -> 4000
          [] lit = "0.5" -> 5000
          [] lit = "0.298" -> 2980
          [] lit = "0.3335" -> 3335
          [] lit = "1.0" -> 10000
          [] lit = "-0.5" -> -5000
          [] lit = "0.2" -> 2000]

RECURSIVE Split(_)
\* str.split(','): the pieces between the commas; always at least one token,
\* the empty string gives one empty token.
Split(str) ==
    IF \A i \in 1..Len(str) : str[i] # Comma
    THEN << str >>
    ELSE LET i == CHOOSE j \in 1..Len(str) :
                    /\ str[j] = Comma
                    /\ \A k \in 1..(j - 1) : str[k] # Comma
         IN  << SubSeq(str, 1, i - 1) >> \o Split(SubSeq(str, i + 1, Len(str)))

\* float(token) succeeds: the token is one numeric literal.
IsNumeric(tok) == Len(tok) = 1 /\ tok[1] \in DOMAIN FloatTable

\* float(token)
Float(tok) == FloatTable[tok[1]]

\* [float(w) for w in s.split(',')], for tokens that are all numeric.
ParseList(str) == LET toks == Split(str) IN [i \in 1..Len(toks) |-> Float(toks[i])]

AllNumeric(str) == \A i \in 1..Len(Split(str)) : IsNumeric(Split(str)[i])
\* A variant that returns the weights as they were parsed.
Rescale_unscaled(ws, factor) == ws

\* [w * factor for w in ws]
Rescale(ws, factor) == [i \in 1..Len(ws) |-> FMul(ws[i], factor)]
\* A variant that tolerates a deviation of 0.01.
WithinTolerance_loose(total) == 9900 <= total /\ total <= 10100

\* 0.999 <= total_sum <= 1.001
WithinTolerance(total) == TolLow <= total /\ total <= TolHigh
\* A variant that compares the number of tokens with the expected counts
\* before it parses them.
validate_weights_counts_first(infra_weights, census_weights, infra_count, census_count) ==
    IF Len(Split(infra_weights)) # infra_count \/ Len(Split(census_weights)) # census_count
    THEN [error |-> "CountMismatch", infra |-> <<>>, census |-> <<>>]
    ELSE IF ~(AllNumeric(infra_weights) /\ AllNumeric(census_weights))
    THEN [error |-> "MalformedInput", infra |-> <<>>, census |-> <<>>]
    ELSE LET iw == ParseList(infra_weights)
             cw == ParseList(census_weights)
             total_sum == SumSeq(iw) + SumSeq(cw)
         IN  IF ~WithinTolerance(total_sum)
             THEN [error |-> "WeightSumError", infra |-> <<>>, census |-> <<>>]
             ELSE IF total_sum # Unit
             THEN LET factor == FDiv(Unit, total_sum)
                  IN  [error |-> "none",
                       infra |-> Rescale(iw, factor),
                       census |-> Rescale(cw, factor)]
             ELSE [error |-> "none", infra |-> iw, census |-> cw]

\* validate_weights of both evaluators (the mobile one is the same text).
validate_weights(infra_weights, census_weights, infra_count, census_count) ==
    IF ~(AllNumeric(infra_weights) /\ AllNumeric(census_weights))
    THEN [error |-> "MalformedInput", infra |-> <<>>, census |-> <<>>]
    ELSE LET iw == ParseList(infra_weights)
             cw == ParseList(census_weights)
             total_sum == SumSeq(iw) + SumSeq(cw)
         IN  IF Len(iw) # infra_count
             THEN [error |-> "CountMismatch", infra |-> <<>>, census |-> <<>>]
             ELSE IF Len(cw) # census_count
             THEN [error |-> "CountMismatch", infra |-> <<>>, census |-> <<>>]
             ELSE IF ~WithinTolerance(total_sum)
             THEN [error |-> "WeightSumError", infra |-> <<>>, census |-> <<>>]
             ELSE IF total_sum # Unit
             THEN LET factor == FDiv(Unit, total_sum)
                  IN  [error |-> "none",
                       infra |-> Rescale(iw, factor),
                       census |-> Rescale(cw, factor)]
             ELSE [error |-> "none", infra |-> iw, census |-> cw]


\* ------------------------------------------------------ the configuration

\* The static model's buffer radius in metres (buffer_distance * 1000).
buffer_distance_meters == 1000

\* The candidate sites of a run, by feature id.
NumCandidates == 2

CandidateIds == 1..NumCandidates

\* Names of the infrastructure layers, in the order they are supplied.
\* Layers are told apart by name: the names of a run are distinct.
InfraLayerNames == <<"L1", "L2">>

\* The features of each infrastructure layer, by feature id.
InfraFeatures(layer) == IF layer = "L1" THEN <<1, 2>> ELSE <<3>>

InfraFeatureIds == {1, 2, 3}

\* Names of the critical-zone layers and the features of each.
ZoneLayerNames == <<"Z1", "Z2">>

ZoneFeatures(zone) == IF zone = "Z1" THEN <<1, 2>> ELSE <<>>

ZoneFeatureIds == {1, 2}

\* variable + "_score"
ScoreKey(variable) ==
    CASE variable = "pop" -> "pop_score"
      [] variable = "pop_score" -> "pop_score_score"
      [] OTHER -> "income_score"

\* The census units (polygons) of the census layer: the value each holds
\* for each numeric field, as the feature source returns it.
CensusUnits ==
    << [pop |-> "1.0", pop_score |-> "3.0"],
       [pop |-> "5.0", pop_score |-> "5.0"],
       [pop |-> "NULL", pop_score |-> "3.0"] >>

\* float(value) of a census attribute, in fixed point.
CensusFloat == [lit \in {"1.0", "3.0", "5.0"} |->
                  CASE lit = "1.0" -> 10000 [] lit = "3.0" -> 30000 [] lit = "5.0" -> 50000]

\* float(outage_cost) of an outage-cost attribute (whole currency units).
OutageFloat == [lit \in {"50", "70"} |-> IF lit = "50" THEN 50 ELSE 70]

\* Attribute values a feature may hold in its 'outage_cos' field; NoField
\* marks a layer whose features have no such field.
NoField == "<no field>"
OutageValues == {"None", "NULL", "abc", "50", "70"}

\* ------------------------------------------------------------- candidates

\* static_candidate.Candidate.__init__
StaticCandidate(id) ==
    [id |-> id,
     infrastructures |-> EmptyDict,
     census_data |-> EmptyDict,
     census_scores |-> EmptyDict,
     critical_zones |-> EmptyDict,
     final_score |-> 0,
     total_census_score |-> 0,
     total_infra_score |-> 0,
     total_zone_score |-> 0,
     outage_costs |-> EmptyDict,
     total_outage_cost_savings |-> 0]

\* mobile_candidate.Candidate.__init__
MobileCandidate(id) ==
    [id |-> id,
     infrastructures |-> EmptyDict,
     census_data |-> EmptyDict,
     census_scores |-> EmptyDict,
     critical_zones |-> EmptyDict,
     final_score |-> 0,
     total_census_score |-> 0,
     total_infra_score |-> 0,
     total_zone_score |-> 0]

\* The dictionary a static candidate creates for a layer on first write;
\* set_infrastructure_raw_score creates it without the 'outage_costs' key.
StaticEntry(with_costs) ==
    [count |-> 0, raw_score |-> 0, normalized_score |-> 0, weighted_score |-> 0,
     has_outage_costs |-> with_costs, outage_costs |-> <<>>]

\* The dictionary a mobile candidate creates for a layer on first write.
MobileEntry == [count |-> 0, raw_score |-> 0, final_score |-> 0, total_duration |-> 0]

\* if infra_name not in self.infrastructures: self.infrastructures[infra_name] = {...}
EnsureEntry(c, infra_name, fresh) ==
    IF DictHas(c.infrastructures, infra_name) THEN c
    ELSE [c EXCEPT !.infrastructures = DictSet(@, infra_name, fresh)]

\* self.infrastructures[infra_name]
EntryOf(c, infra_name) == DictGet(c.infrastructures, infra_name, MobileEntry)

\* static Candidate.update_infrastructure_count
Static_update_infrastructure_count(c, infra_name, count) ==
    LET c1 == EnsureEntry(c, infra_name, StaticEntry(TRUE))
    IN  [c1 EXCEPT !.infrastructures =
            DictSet(@, infra_name, [EntryOf(c1, infra_name) EXCEPT !.count = count])]

\* static Candidate.set_infrastructure_raw_score
Static_set_infrastructure_raw_score(c, infra_name, raw_score) ==
    LET c1 == EnsureEntry(c, infra_name, StaticEntry(FALSE))
    IN  [c1 EXCEPT !.infrastructures =
            DictSet(@, infra_name, [EntryOf(c1, infra_name) EXCEPT !.raw_score = raw_score])]

\* static Candidate.set_infrastructure_score
Static_set_infrastructure_score(c, infra_name, normalized_score, weighted_score) ==
    LET c1 == EnsureEntry(c, infra_name, StaticEntry(TRUE))
    IN  [c1 EXCEPT !.infrastructures =
            DictSet(@, infra_name,
                    [EntryOf(c1, infra_name) EXCEPT !.normalized_score = normalized_score,
                                                    !.weighted_score = weighted_score])]

\* The append of a parsed cost to both stores of a static candidate.
AppendOutageCost(c, infra_name, cost) ==
    LET c1 == [c EXCEPT !.outage_costs =
                  DictSet(@, infra_name, Append(DictGet(@, infra_name, <<>>), cost))]
        c2 == IF DictHas(c1.infrastructures, infra_name) THEN c1
              ELSE Static_update_infrastructure_count(c1, infra_name, 0)
        e  == EntryOf(c2, infra_name)
        e1 == IF e.has_outage_costs THEN e
              ELSE [e EXCEPT !.has_outage_costs = TRUE, !.outage_costs = <<>>]
    IN  [c2 EXCEPT !.infrastructures =
            DictSet(@, infra_name, [e1 EXCEPT !.outage_costs = Append(@, cost)])]

\* A variant that records a value float() rejects as the cost 0.
add_infrastructure_outage_cost_zero(c, infra_name, outage_cost) ==
    LET c1 == IF DictHas(c.outage_costs, infra_name) THEN c
              ELSE [c EXCEPT !.outage_costs = DictSet(@, infra_name, <<>>)]
    IN  AppendOutageCost(c1, infra_name,
                         IF outage_cost \in DOMAIN OutageFloat
                         THEN OutageFloat[outage_cost] ELSE 0)

\* static Candidate.add_infrastructure_outage_cost: None, "NULL" and values
\* float() rejects are dropped.
add_infrastructure_outage_cost(c, infra_name, outage_cost) ==
    LET c1 == IF DictHas(c.outage_costs, infra_name) THEN c
              ELSE [c EXCEPT !.outage_costs = DictSet(@, infra_name, <<>>)]
    IN  IF outage_cost # "None" /\ outage_cost # "NULL" /\ outage_cost \in DOMAIN OutageFloat
        THEN AppendOutageCost(c1, infra_name, OutageFloat[outage_cost])
        ELSE c1
RECURSIVE SumCostsFrom_nonneg(_, _)
\* A variant that also counts the types whose weighted score is 0.
SumCostsFrom_nonneg(c, i) ==
    IF i > Len(c.outage_costs.keys) THEN 0
    ELSE LET infra_name == c.outage_costs.keys[i]
             infra_score == IF DictHas(c.infrastructures, infra_name)
                            THEN EntryOf(c, infra_name).weighted_score ELSE 0
         IN  (IF infra_score >= 0 THEN SumSeq(c.outage_costs.val[i]) ELSE 0)
             + SumCostsFrom_nonneg(c, i + 1)

RECURSIVE SumCostsFrom(_, _)
\* The loop of calculate_total_outage_cost_savings from key i on.
SumCostsFrom(c, i) ==
    IF i > Len(c.outage_costs.keys) THEN 0
    ELSE LET infra_name == c.outage_costs.keys[i]
             infra_score == IF DictHas(c.infrastructures, infra_name)
                            THEN EntryOf(c, infra_name).weighted_score ELSE 0
         IN  (IF infra_score > 0 THEN SumSeq(c.outage_costs.val[i]) ELSE 0)
             + SumCostsFrom(c, i + 1)

\* static Candidate.calculate_total_outage_cost_savings
calculate_total_outage_cost_savings(c) ==
    [c EXCEPT !.total_outage_cost_savings = SumCostsFrom(c, 1)]

\* Candidate.set_census_data (both models)
set_census_data(c, variable_name, value) ==
    [c EXCEPT !.census_data = DictSet(@, variable_name, value)]

\* Candidate.set_census_data_score (both models): the score is stored twice,
\* under variable + "_score" in the raw-value map and in the score map.
set_census_data_score(c, variable, weighted_score) ==
    [c EXCEPT !.census_data = DictSet(@, ScoreKey(variable), weighted_score),
              !.census_scores = DictSet(@, variable, weighted_score)]

\* Candidate.set_critical_zone_score (both models)
set_critical_zone_score(c, zone_type, score) ==
    [c EXCEPT !.critical_zones = DictSet(@, zone_type, score)]

\* mobile Candidate.update_infrastructure_count
Mobile_update_infrastructure_count(c, infra_name, count) ==
    LET c1 == EnsureEntry(c, infra_name, MobileEntry)
    IN  [c1 EXCEPT !.infrastructures =
            DictSet(@, infra_name, [EntryOf(c1, infra_name) EXCEPT !.count = count])]

\* mobile Candidate.set_infrastructure_raw_score
Mobile_set_infrastructure_raw_score(c, infra_name, raw_score) ==
    LET c1 == EnsureEntry(c, infra_name, MobileEntry)
    IN  [c1 EXCEPT !.infrastructures =
            DictSet(@, infra_name, [EntryOf(c1, infra_name) EXCEPT !.raw_score = raw_score])]

\* mobile Candidate.set_infrastructure_total_duration
set_infrastructure_total_duration(c, infra_name, total_duration) ==
    LET c1 == EnsureEntry(c, infra_name, MobileEntry)
    IN  [c1 EXCEPT !.infrastructures =
            DictSet(@, infra_name,
                    [EntryOf(c1, infra_name) EXCEPT !.total_duration = total_duration])]

\* mobile Candidate.set_infrastructure_score
Mobile_set_infrastructure_score(c, infra_name, final_score) ==
    LET c1 == EnsureEntry(c, infra_name, MobileEntry)
    IN  [c1 EXCEPT !.infrastructures =
            DictSet(@, infra_name, [EntryOf(c1, infra_name) EXCEPT !.final_score = final_score])]


\* ------------------------------------------------- critical-zone evaluator

RECURSIVE ZoneFeatureLoop_cumulative(_, _, _, _, _, _)
\* A feature loop that does not stop at the first intersecting feature and
\* adds the zone's score for each.
ZoneFeatureLoop_cumulative(c, zone_name, zone_score, feats, k, hits) ==
    IF k > Len(feats) THEN c
    ELSE ZoneFeatureLoop_cumulative(
            set_critical_zone_score(c, zone_name,
               IF hits[feats[k]]
               THEN DictGet(c.critical_zones, zone_name, 0) + zone_score
               ELSE DictGet(c.critical_zones, zone_name, 0)),
            zone_name, zone_score, feats, k + 1, hits)

RECURSIVE ZoneFeatureLoop(_, _, _, _, _, _)
\* for zone_feature in zone_layer.getFeatures(): the first intersecting
\* feature sets the zone's score and ends the loop; every feature before it
\* that does not intersect sets 0.  hits[f] is intersects() of feature f
\* with the candidate's point.
ZoneFeatureLoop(c, zone_name, zone_score, feats, k, hits) ==
    IF k > Len(feats) THEN c
    ELSE IF hits[feats[k]]
         THEN set_critical_zone_score(c, zone_name, zone_score)
         ELSE ZoneFeatureLoop(set_critical_zone_score(c, zone_name, 0),
                              zone_name, zone_score, feats, k + 1, hits)

RECURSIVE ZoneLayerLoop(_, _, _, _, _)
\* for i, zone_layer in enumerate(zone_layers)
ZoneLayerLoop(c, zones, scores, i, hits) ==
    IF i > Len(zones) THEN c
    ELSE ZoneLayerLoop(
            ZoneFeatureLoop(c, zones[i], scores[i], ZoneFeatures(zones[i]), 1, hits[zones[i]]),
            zones, scores, i + 1, hits)

\* evaluate_critical_zones (both evaluators), for the whole candidate list.
\* hits[j][zone][f]: whether feature f of the zone intersects candidate j.
evaluate_critical_zones(cands, zones, scores, hits) ==
    [j \in 1..Len(cands) |-> ZoneLayerLoop(cands[j], zones, scores, 1, hits[j])]

\* -------------------------------------------------------- census aggregator

RECURSIVE CensusVarLoop(_, _, _, _)
\* for var_name in census_vars: a value other than None and "NULL" that
\* float() accepts is stored as the raw value.
CensusVarLoop(c, unit, vars, i) ==
    IF i > Len(vars) THEN c
    ELSE LET value == unit[vars[i]]
         IN  CensusVarLoop(
                IF value # "None" /\ value # "NULL" /\ value \in DOMAIN CensusFloat
                THEN set_census_data(c, vars[i], CensusFloat[value]) ELSE c,
                unit, vars, i + 1)

RECURSIVE process_census_data(_, _, _, _)
\* _process_census_data: the first census unit that intersects the candidate
\* supplies the values; none found leaves the candidate as it is.
process_census_data(c, vars, k, hits) ==
    IF k > Len(CensusUnits) THEN c
    ELSE IF hits[k] THEN CensusVarLoop(c, CensusUnits[k], vars, 1)
         ELSE process_census_data(c, vars, k + 1, hits)

\* ------------------------------------- infrastructure evaluator, static

\* What calculate_road_distance answers when it raises instead of returning.
RoadRaised == -1

\* The distance of a candidate-feature pair by the selected method.  With
\* the road method (0) it is what calculate_road_distance returns: the
\* routed distance, or float('inf') when the routing request failed
\* (road_network_analyzer.py lines 49-56); only when that call raises is the
\* Haversine distance used instead.  Method 1 is the Haversine distance.
ActualDistance(m, distance_method) ==
    IF distance_method = 0
    THEN IF m.road = RoadRaised THEN m.distance ELSE m.road
    ELSE m.distance

\* score = buffer_distance - distance, without the max(0, ...)
FeatureScore_unclamped(buffer_distance, distance) == buffer_distance - distance

\* score = max(0, buffer_distance - distance)
FeatureScore(buffer_distance, distance) == Max2(0, buffer_distance - distance)

RECURSIVE StaticFeatureLoop(_, _, _, _, _, _, _, _)
\* for feature in layer.getFeatures(): acc carries the candidate,
\* total_score and infra_count.  m[f] is what the geometry and distance
\* services answer for feature f, cos[f] its 'outage_cos' attribute.  The
\* loop has no try: when the geometry or coordinate step of a feature
\* raises (m[f].raises) the exception leaves the loop, acc.raised.
StaticFeatureLoop(acc, infra_name, feats, k, buffer_distance, distance_method, m, cos) ==
    IF k > Len(feats) \/ acc.raised THEN acc
    ELSE LET f == feats[k]
             score == FeatureScore(buffer_distance, ActualDistance(m[f], distance_method))
             c1 == IF score > 0 /\ cos[f] # NoField
                   THEN add_infrastructure_outage_cost(acc.c, infra_name, cos[f])
                   ELSE acc.c
             next == IF m[f].raises
                     THEN [acc EXCEPT !.raised = TRUE]
                     ELSE IF m[f].intersects
                     THEN [c |-> c1, total_score |-> acc.total_score + score,
                           infra_count |-> acc.infra_count + 1, raised |-> FALSE]
                     ELSE acc
         IN  StaticFeatureLoop(next, infra_name, feats, k + 1,
                               buffer_distance, distance_method, m, cos)

RECURSIVE Static_evaluate_infrastructure(_, _, _, _, _, _, _)
\* static evaluate_infrastructure, from layer i on: the candidate it leaves
\* and whether it raised.  An exception of the feature loop leaves the
\* method before the count and raw score of the layer are stored.
Static_evaluate_infrastructure(c, layers, i, buffer_distance, distance_method, m, cos) ==
    IF i > Len(layers) THEN [c |-> c, raised |-> FALSE]
    ELSE LET infra_name == layers[i]
             r == StaticFeatureLoop([c |-> c, total_score |-> 0, infra_count |-> 0,
                                     raised |-> FALSE],
                                    infra_name, InfraFeatures(infra_name), 1,
                                    buffer_distance, distance_method, m, cos)
             c1 == Static_update_infrastructure_count(r.c, infra_name, r.infra_count)
             c2 == Static_set_infrastructure_raw_score(c1, infra_name, r.total_score)
         IN  IF r.raised THEN [c |-> r.c, raised |-> TRUE]
             ELSE Static_evaluate_infrastructure(c2, layers, i + 1,
                                                 buffer_distance, distance_method, m, cos)

\* ------------------------------------- infrastructure evaluator, mobile

\* One pass of the feature loop of the mobile evaluate_infrastructure.  What
\* the collaborators answer for the feature is m.kind:
\*   "geom_error"  geometry()/intersects() raises (before infra_count += 1)
\*   "outside"     the feature does not intersect the coverage area
\*   "point_error" asPoint()/transform_coordinates() raises
\*   "eta_error"   calculate_eta raises
\*   "eta_none"    calculate_eta returns None
\*   "eta"         calculate_eta returns m.duration
MobileFeatureStep(acc, m) ==
    CASE m.kind = "geom_error" -> [acc EXCEPT !.invalid_count = @ + 1]
      [] m.kind = "outside" -> acc
      [] m.kind \in {"point_error", "eta_error", "eta_none"} ->
            [acc EXCEPT !.infra_count = @ + 1, !.invalid_count = @ + 1]
      [] OTHER ->
            IF m.duration > 0
            THEN [acc EXCEPT !.infra_count = @ + 1,
                             !.total_duration = @ + m.duration,
                             !.total_score = @ + m.duration]
            ELSE [acc EXCEPT !.infra_count = @ + 1, !.invalid_count = @ + 1]

RECURSIVE MobileFeatureLoop(_, _, _, _)
MobileFeatureLoop(acc, feats, k, m) ==
    IF k > Len(feats) THEN acc
    ELSE MobileFeatureLoop(MobileFeatureStep(acc, m[feats[k]]), feats, k + 1, m)

RECURSIVE Mobile_evaluate_infrastructure(_, _, _, _)
\* mobile evaluate_infrastructure, from layer i on.
Mobile_evaluate_infrastructure(c, layers, i, m) ==
    IF i > Len(layers) THEN c
    ELSE LET infra_name == layers[i]
             r == MobileFeatureLoop([infra_count |-> 0, invalid_count |-> 0,
                                     total_score |-> 0, total_duration |-> 0],
                                    InfraFeatures(infra_name), 1, m)
             c1 == IF r.infra_count > r.invalid_count
                   THEN set_infrastructure_total_duration(
                            Mobile_set_infrastructure_raw_score(
                                Mobile_update_infrastructure_count(
                                    c, infra_name, r.infra_count - r.invalid_count),
                                infra_name, r.total_score),
                            infra_name, r.total_duration)
                   ELSE set_infrastructure_total_duration(
                            Mobile_set_infrastructure_raw_score(
                                Mobile_update_infrastructure_count(c, infra_name, 0),
                                infra_name, Inf),
                            infra_name, 0)
         IN  Mobile_evaluate_infrastructure(c1, layers, i + 1, m)


\* ---------------------------------------- normalization and weighting engine

\* candidate.infrastructures.get(infra_name, {}).get('raw_score', default)
RawScoreOf(c, infra_name, default) ==
    IF DictHas(c.infrastructures, infra_name)
    THEN EntryOf(c, infra_name).raw_score ELSE default

\* The raw scores in the order the range loops read them: candidate by
\* candidate, and for each candidate layer by layer.
RawScores(cands, layers, default) ==
    [n \in 1..(Len(cands) * Len(layers)) |->
        RawScoreOf(cands[((n - 1) \div Len(layers)) + 1],
                   layers[((n - 1) % Len(layers)) + 1], default)]

\* float('inf') and float('-inf'), the range before any score is read.
EmptyRange == [min |-> Inf, max |-> -Inf]

RECURSIVE FoldRange(_, _, _)
\* min(...)/max(...) over the values from index k on.
FoldRange(values, k, acc) ==
    IF k > Len(values) THEN acc
    ELSE FoldRange(values, k + 1,
                   [min |-> Min2(acc.min, values[k]), max |-> Max2(acc.max, values[k])])

RECURSIVE FoldFiniteRange(_, _, _)
\* The same, reading only the durations that are not the sentinel.
FoldFiniteRange(values, k, acc) ==
    IF k > Len(values) THEN acc
    ELSE FoldFiniteRange(values, k + 1,
            IF values[k] # Inf
            THEN [min |-> Min2(acc.min, values[k]), max |-> Max2(acc.max, values[k])]
            ELSE acc)

\* The one range of the static infrastructure scores: over every candidate
\* and every layer together.
StaticInfraRange(cands, layers) == FoldRange(RawScores(cands, layers, 0), 1, EmptyRange)

\* The one range of the mobile durations: over every candidate and every
\* layer together, the sentinel left out.
MobileInfraRange(cands, layers) == FoldFiniteRange(RawScores(cands, layers, Inf), 1, EmptyRange)

\* census_ranges[var]: over candidate.census_data.get(var, 0) of every candidate.
CensusRange(cands, var) ==
    FoldRange([j \in 1..Len(cands) |-> DictGet(cands[j].census_data, var, 0)], 1, EmptyRange)

CensusRanges(cands, vars) == [i \in 1..Len(vars) |-> CensusRange(cands, vars[i])]
\* A variant that gives 1.0 to every value of an empty range.
MinMaxNorm_all_one(value, range) ==
    IF range.max > range.min
    THEN FDiv(value - range.min, range.max - range.min)
    ELSE Unit

\* Min-max scaling of the static infrastructure scores and of the census
\* values: (value - min) / (max - min); an empty range gives 1.0 to a
\* positive value and 0.0 otherwise.
MinMaxNorm(value, range) ==
    IF range.max > range.min
    THEN FDiv(value - range.min, range.max - range.min)
    ELSE IF value > 0 THEN Unit ELSE 0

\* max(0, min(1, normalized))
Clamp01(normalized) == Max2(0, Min2(Unit, normalized))
\* A variant that does not invert the scaling.
MobileNorm_uninverted(duration, range) ==
    IF duration = Inf THEN 0
    ELSE IF range.max = range.min THEN Unit
    ELSE Clamp01(FDiv(duration - range.min, range.max - range.min))

\* The inverted scaling of the mobile durations.
MobileNorm(duration, range) ==
    IF duration = Inf THEN 0
    ELSE IF range.max = range.min THEN Unit
    ELSE Clamp01(FDiv(range.max - duration, range.max - range.min))

RECURSIVE StaticInfraApply(_, _, _, _, _)
\* static: for i, layer in enumerate(infra_layers)
StaticInfraApply(c, layers, infra_weights, i, range) ==
    IF i > Len(layers) THEN c
    ELSE LET norm_score == MinMaxNorm(RawScoreOf(c, layers[i], 0), range)
             weighted_score == FMul(norm_score, infra_weights[i])
         IN  StaticInfraApply(
                Static_set_infrastructure_score(c, layers[i], norm_score, weighted_score),
                layers, infra_weights, i + 1, range)

RECURSIVE StaticCensusApply(_, _, _, _, _)
\* static: for i, var in enumerate(census_variables); the value is read
\* from the raw-value map when its turn comes.
StaticCensusApply(c, vars, census_weights, i, ranges) ==
    IF i > Len(vars) THEN c
    ELSE LET value == DictGet(c.census_data, vars[i], 0)
             norm_score == MinMaxNorm(value, ranges[i])
             weighted_score == FMul(norm_score, census_weights[i])
         IN  StaticCensusApply(set_census_data_score(c, vars[i], weighted_score),
                               vars, census_weights, i + 1, ranges)

\* static normalize_and_weight_scores: the ranges first, then every candidate.
Static_normalize_and_weight_scores(cands, layers, vars, infra_weights, census_weights) ==
    LET range == StaticInfraRange(cands, layers)
        ranges == CensusRanges(cands, vars)
    IN  [j \in 1..Len(cands) |->
            StaticCensusApply(
                StaticInfraApply(cands[j], layers, infra_weights, 1, range),
                vars, census_weights, 1, ranges)]

RECURSIVE MobileInfraApply(_, _, _, _, _, _)
\* mobile: for i, layer in enumerate(infra_layers); total is total_infra_score.
MobileInfraApply(c, layers, infra_weights, i, range, total) ==
    IF i > Len(layers) THEN [c EXCEPT !.total_infra_score = total]
    ELSE LET normalized == MobileNorm(RawScoreOf(c, layers[i], Inf), range)
             weighted_score == FMul(normalized, infra_weights[i])
         IN  MobileInfraApply(Mobile_set_infrastructure_score(c, layers[i], weighted_score),
                              layers, infra_weights, i + 1, range, total + weighted_score)

RECURSIVE MobileCensusApply(_, _, _, _, _, _)
\* mobile: for i, var in enumerate(census_vars); total is total_census_score.
MobileCensusApply(c, vars, census_weights, i, ranges, total) ==
    IF i > Len(vars) THEN [c EXCEPT !.total_census_score = total]
    ELSE LET value == DictGet(c.census_data, vars[i], 0)
             normalized == Clamp01(MinMaxNorm(value, ranges[i]))
             weighted_score == FMul(normalized, census_weights[i])
         IN  MobileCensusApply(set_census_data_score(c, vars[i], weighted_score),
                               vars, census_weights, i + 1, ranges, total + weighted_score)

\* mobile normalize_and_weight_scores
Mobile_normalize_and_weight_scores(cands, layers, vars, infra_weights, census_weights) ==
    LET range == MobileInfraRange(cands, layers)
        ranges == CensusRanges(cands, vars)
    IN  [j \in 1..Len(cands) |->
            MobileCensusApply(
                MobileInfraApply(cands[j], layers, infra_weights, 1, range, 0),
                vars, census_weights, 1, ranges, 0)]

\* ------------------------------------------------- final score aggregator

\* [info.get('weighted_score', 0) for info in candidate.infrastructures.values()]
WeightedScores(c) ==
    [i \in 1..Len(c.infrastructures.val) |-> c.infrastructures.val[i].weighted_score]
\* A variant that adds the new sum to the final score already stored.
Static_final_score_accumulating(c) ==
    LET infra_total == SumSeq(WeightedScores(c))
        census_total == SumSeq(DictValues(c.census_scores))
        zone_total == SumSeq(DictValues(c.critical_zones))
    IN  calculate_total_outage_cost_savings(
            [c EXCEPT !.total_infra_score = infra_total,
                      !.total_census_score = census_total,
                      !.total_zone_score = zone_total,
                      !.final_score = @ + (infra_total + census_total) + zone_total])

\* A variant that folds the outage cost savings into the final score.
Static_final_score_with_savings(c) ==
    LET infra_total == SumSeq(WeightedScores(c))
        census_total == SumSeq(DictValues(c.census_scores))
        zone_total == SumSeq(DictValues(c.critical_zones))
        d == calculate_total_outage_cost_savings(c)
    IN  [d EXCEPT !.total_infra_score = infra_total,
                  !.total_census_score = census_total,
                  !.total_zone_score = zone_total,
                  !.final_score = (infra_total + census_total) + zone_total
                                  + d.total_outage_cost_savings]

\* The body of the loop of the static calculate_final_scores.
Static_final_score(c) ==
    LET infra_total == SumSeq(WeightedScores(c))
        census_total == SumSeq(DictValues(c.census_scores))
        zone_total == SumSeq(DictValues(c.critical_zones))
    IN  calculate_total_outage_cost_savings(
            [c EXCEPT !.total_infra_score = infra_total,
                      !.total_census_score = census_total,
                      !.total_zone_score = zone_total,
                      !.final_score = (infra_total + census_total) + zone_total])

\* static calculate_final_scores
Static_calculate_final_scores(cands) == [j \in 1..Len(cands) |-> Static_final_score(cands[j])]
\* A variant that leaves the zone modifiers out of the final score.
Mobile_final_score_no_zone(c) ==
    LET infra_score == c.total_infra_score
        census_score == c.total_census_score
        critical_zone_total == SumSeq(DictValues(c.critical_zones))
    IN  [c EXCEPT !.total_zone_score = critical_zone_total,
                  !.final_score = infra_score + census_score]

\* The body of the loop of the mobile calculate_final_scores: the
\* infrastructure and census totals are those the normalization pass stored.
Mobile_final_score(c) ==
    LET infra_score == c.total_infra_score
        census_score == c.total_census_score
        critical_zone_total == SumSeq(DictValues(c.critical_zones))
    IN  [c EXCEPT !.total_zone_score = critical_zone_total,
                  !.final_score = infra_score + census_score + critical_zone_total]

\* mobile calculate_final_scores
Mobile_calculate_final_scores(cands) == [j \in 1..Len(cands) |-> Mobile_final_score(cands[j])]


\* ------------------------------------------------------------ the run state

VARIABLES
    pc,                  \* the stage of processAlgorithm the run is at
    evaluation_type,     \* 0: static model, 1: mobile model
    distance_method,     \* 0: road distance, 1: Haversine distance
    infra_layers,        \* names of the infrastructure layers
    census_vars,         \* names of the numeric fields of the census layer
    zone_layers,         \* names of the critical-zone layers
    zone_scores,         \* the parsed critical-zone scores
    infra_weights,       \* the infrastructure weight string
    census_weights,      \* the census weight string
    infra_weights_list,  \* the validated infrastructure weights
    census_weights_list, \* the validated census weights
    error,               \* the error that ended the run, or "none"
    candidates,          \* the list of Candidate objects
    current,             \* the index of the loop the run is in
    outage_cos,          \* the 'outage_cos' attribute of every infrastructure feature
    outage_cos2,         \* the same attribute in a second run on the same inputs
    shadow,              \* the candidates of that second run
    final_runs,          \* how many times calculate_final_scores has run
    params,              \* the parameters that only the setup of the run reads
    sink,                \* the features added to the output sink
    reported,            \* the errors reported through feedback.reportError
    canceled,            \* what feedback.isCanceled() answers
    ranges               \* the global ranges normalize_and_weight_scores holds

vars == << pc, evaluation_type, distance_method, infra_layers, census_vars, zone_layers, zone_scores,
           infra_weights, census_weights, infra_weights_list, census_weights_list,
           error, candidates, current, outage_cos, outage_cos2, shadow,
           final_runs, params, sink, reported, canceled, ranges >>

config == << evaluation_type, distance_method, infra_layers, census_vars, zone_layers,
             infra_weights, census_weights, outage_cos, outage_cos2, params >>

\* What the run writes for its caller, and the caller's cancellation signal.
outputs == << sink, reported, canceled >>

\* ------------------------------------------------------- inputs of a run

\* The local variables global_infra_min/max and census_ranges of
\* normalize_and_weight_scores before the call has computed them.
NoRanges == [computed |-> FALSE, infra |-> EmptyRange, census |-> <<>>]

\* The parameters of a run that passes the setup: a candidates layer, the
\* critical-zone score string, the buffer distance in km, a coverage area
\* with a geometry, and a sink that parameterAsSink could create.
ValidParams ==
    [candidates_layer |-> TRUE,
     zone_scores |-> <<"-0.5", ",", "1.0">>,
     buffer_distance |-> 1,
     coverage_area |-> "valid",
     sink_created |-> TRUE]

\* feedback.reportError (and, inside the evaluators, self.log with an error
\* message): what was reported, for which stage and candidate (0: the run).
reportError(log, stage, id) == log \cup { [stage |-> stage, id |-> id] }

\* The weight strings and census fields of the runs.
\* The 'outage_cos' attributes of the infrastructure features of the runs.
OutageA == (1 :> "50" @@ 2 :> "70" @@ 3 :> NoField)
OutageB == (1 :> "NULL" @@ 2 :> "abc" @@ 3 :> "70")

\* The weight strings, census fields and outage attributes of the runs, and
\* the models each is run with.
RunConfigs ==
    { [vars |-> <<"pop">>, infra |-> <<"0.3", ",", "0.3">>, census |-> <<"0.4">>,
       outage |-> OutageA, types |-> {0, 1}, methods |-> {0, 1}],
      [vars |-> <<"pop">>, infra |-> <<"0.3", ",", "0.3">>, census |-> <<"0.4">>,
       outage |-> OutageB, types |-> {0}, methods |-> {1}],
      [vars |-> <<"pop", "pop_score">>, infra |-> <<"0.3", ",", "0.3">>,
       census |-> <<"0.2", ",", "0.2">>, outage |-> OutageA, types |-> {0, 1},
       methods |-> {1}],
      [vars |-> <<"pop">>, infra |-> <<"-0.5", ",", "1.0">>, census |-> <<"0.5">>,
       outage |-> OutageA, types |-> {0}, methods |-> {1}],
      [vars |-> <<"pop">>, infra |-> <<"0.5", ",", "0.5">>, census |-> <<"0.5">>,
       outage |-> OutageA, types |-> {0, 1}, methods |-> {1}] }

\* What the geometry and distance services may answer for a candidate and
\* infrastructure feature f in the static model: whether the feature
\* intersects the buffer, the Haversine distance of the pair, what
\* calculate_road_distance returns for it (Inf: the routing request failed)
\* and whether the geometry or coordinate step raises.
StaticMeasures(f) ==
    CASE f = 1 -> { [intersects |-> FALSE, distance |-> 1500, road |-> 1800, raises |-> FALSE],
                    [intersects |-> TRUE, distance |-> 400, road |-> 600, raises |-> FALSE],
                    [intersects |-> TRUE, distance |-> 1200, road |-> 1300, raises |-> FALSE] }
      [] f = 2 -> { [intersects |-> FALSE, distance |-> 1500, road |-> 1800, raises |-> FALSE],
                    [intersects |-> TRUE, distance |-> 400, road |-> RoadRaised, raises |-> FALSE] }
      [] OTHER -> { [intersects |-> FALSE, distance |-> 1500, road |-> 1800, raises |-> FALSE],
                    [intersects |-> TRUE, distance |-> 300, road |-> Inf, raises |-> FALSE] }

\* What the geometry and routing services may answer for a candidate and
\* infrastructure feature f in the mobile model.
MobileMeasures(f) ==
    CASE f = 1 -> { [kind |-> "eta", duration |-> 100],
                    [kind |-> "eta", duration |-> 300],
                    [kind |-> "eta_error", duration |-> 0],
                    [kind |-> "geom_error", duration |-> 0] }
      [] f = 2 -> { [kind |-> "outside", duration |-> 0],
                    [kind |-> "eta", duration |-> 100],
                    [kind |-> "eta_none", duration |-> 0] }
      [] OTHER -> { [kind |-> "eta", duration |-> 300],
                    [kind |-> "eta_error", duration |-> 0],
                    [kind |-> "eta", duration |-> -5],
                    [kind |-> "point_error", duration |-> 0] }

StaticMeasureChoices == { m \in [InfraFeatureIds -> UNION {StaticMeasures(f) : f \in InfraFeatureIds}] :
                            \A f \in InfraFeatureIds : m[f] \in StaticMeasures(f) }

MobileMeasureChoices == { m \in [InfraFeatureIds -> UNION {MobileMeasures(f) : f \in InfraFeatureIds}] :
                            \A f \in InfraFeatureIds : m[f] \in MobileMeasures(f) }

\* Which census units intersect a candidate.
CensusHitChoices ==
    { hits \in [1..Len(CensusUnits) -> BOOLEAN] :
        /\ hits[2] => hits[3]
        /\ hits[1] => ~hits[3] }

\* Which features of each zone layer intersect a candidate's point.
ZoneHitChoices ==
    { hits \in [{ZoneLayerNames[i] : i \in 1..Len(ZoneLayerNames)} -> [ZoneFeatureIds -> BOOLEAN]] :
        /\ \A f \in ZoneFeatureIds : ~hits["Z2"][f]
        /\ hits["Z1"][1] => hits["Z1"][2] }

\* ------------------------------------------------------------------ stages

\* The state once processAlgorithm has read its parameters, created the
\* sink and chosen the model (lines 470-561).
Init ==
    /\ pc = "init_candidates"
    /\ infra_layers = InfraLayerNames
    /\ zone_layers = ZoneLayerNames
    /\ zone_scores = ParseList(<<"-0.5", ",", "1.0">>)
    /\ \E cfg \in RunConfigs :
          /\ evaluation_type \in cfg.types
          /\ distance_method \in IF evaluation_type = 0 THEN cfg.methods ELSE {1}
          /\ census_vars = cfg.vars
          /\ infra_weights = cfg.infra
          /\ census_weights = cfg.census
          /\ outage_cos = cfg.outage
    /\ outage_cos2 = outage_cos
    /\ infra_weights_list = <<>>
    /\ census_weights_list = <<>>
    /\ error = "none"
    /\ candidates = <<>>
    /\ shadow = <<>>
    /\ current = 1
    /\ final_runs = 0
    /\ params = ValidParams
    /\ sink = <<>>
    /\ reported = {}
    /\ canceled = FALSE
    /\ ranges = NoRanges

\* One pass of the loop that creates the candidates (lines 563-581).
InitializeCandidate ==
    /\ pc = "init_candidates"
    /\ current <= NumCandidates
    /\ ~canceled
    /\ LET candidate == IF evaluation_type = 0 THEN StaticCandidate(current)
                        ELSE MobileCandidate(current)
       IN  /\ candidates' = Append(candidates, candidate)
           /\ shadow' = Append(shadow, candidate)
    /\ current' = current + 1
    /\ UNCHANGED << ranges, pc, config, zone_scores, outputs, final_runs, infra_weights_list, census_weights_list, error >>

\* The end of that loop.
CandidatesInitialized ==
    /\ pc = "init_candidates"
    /\ current > NumCandidates \/ canceled
    /\ pc' = "weights"
    /\ current' = 1
    /\ UNCHANGED << ranges, config, zone_scores, outputs, final_runs, infra_weights_list, census_weights_list, error, candidates, shadow >>

\* Weight validation (lines 583-600): an error of validate_weights ends the
\* run, reported by the handler of lines 697-699.
ValidateWeights ==
    /\ pc = "weights"
    /\ LET r == validate_weights(infra_weights, census_weights,
                                 Len(infra_layers), Len(census_vars))
       IN  /\ error' = r.error
           /\ infra_weights_list' = r.infra
           /\ census_weights_list' = r.census
           /\ pc' = IF r.error = "none" THEN "census" ELSE "aborted"
           /\ reported' = IF r.error = "none" THEN reported
                          ELSE reportError(reported, "run", 0)
    /\ UNCHANGED << ranges, config, zone_scores, sink, canceled, final_runs, candidates, shadow, current >>

\* One pass of the census loop (lines 602-614).
ProcessCensus(choices) ==
    /\ pc = "census"
    /\ current <= Len(candidates)
    /\ ~canceled
    /\ \E hits \in choices :
          /\ candidates' = [candidates EXCEPT ![current] =
                               process_census_data(@, census_vars, 1, hits)]
          /\ shadow' = [shadow EXCEPT ![current] =
                           process_census_data(@, census_vars, 1, hits)]
    /\ current' = current + 1
    /\ UNCHANGED << ranges, pc, config, zone_scores, outputs, final_runs, infra_weights_list, census_weights_list, error >>

\* The end of the census loop.
CensusProcessed ==
    /\ pc = "census"
    /\ current > Len(candidates) \/ canceled
    /\ pc' = "zones"
    /\ current' = 1
    /\ UNCHANGED << ranges, config, zone_scores, outputs, final_runs, infra_weights_list, census_weights_list, error, candidates, shadow >>

\* The call of evaluate_critical_zones (lines 616-622).
EvaluateCriticalZones(choices) ==
    /\ pc = "zones"
    /\ \E hits \in [1..Len(candidates) -> choices] :
          /\ candidates' = evaluate_critical_zones(candidates, zone_layers, zone_scores, hits)
          /\ shadow' = evaluate_critical_zones(shadow, zone_layers, zone_scores, hits)
    /\ pc' = "infra"
    /\ UNCHANGED << ranges, config, zone_scores, outputs, final_runs, infra_weights_list, census_weights_list, error, current >>

\* One pass of the infrastructure loop (lines 624-645), static model, the
\* services answering from choices.  An exception of evaluate_infrastructure
\* is reported and the loop goes on with the next candidate.
StaticEvaluateInfrastructure(choices) ==
    /\ pc = "infra"
    /\ evaluation_type = 0
    /\ current <= Len(candidates)
    /\ ~canceled
    /\ \E m \in choices :
          LET r == Static_evaluate_infrastructure(candidates[current], infra_layers, 1,
                        buffer_distance_meters, distance_method, m, outage_cos)
              r2 == Static_evaluate_infrastructure(shadow[current], infra_layers, 1,
                        buffer_distance_meters, distance_method, m, outage_cos2)
          IN  /\ candidates' = [candidates EXCEPT ![current] = r.c]
              /\ shadow' = [shadow EXCEPT ![current] = r2.c]
              /\ reported' = IF r.raised
                             THEN reportError(reported, "infra", candidates[current].id)
                             ELSE reported
    /\ current' = current + 1
    /\ UNCHANGED << ranges, pc, config, zone_scores, sink, canceled, final_runs, infra_weights_list, census_weights_list, error >>

\* One pass of the infrastructure loop, mobile model, the services
\* answering from choices.
MobileEvaluateInfrastructure(choices) ==
    /\ pc = "infra"
    /\ evaluation_type = 1
    /\ current <= Len(candidates)
    /\ ~canceled
    /\ \E m \in choices :
          /\ candidates' = [candidates EXCEPT ![current] =
                Mobile_evaluate_infrastructure(@, infra_layers, 1, m)]
          /\ shadow' = [shadow EXCEPT ![current] =
                Mobile_evaluate_infrastructure(@, infra_layers, 1, m)]
    /\ current' = current + 1
    /\ UNCHANGED << ranges, pc, config, zone_scores, outputs, final_runs, infra_weights_list, census_weights_list, error >>

\* The end of the infrastructure loop.
InfrastructureEvaluated ==
    /\ pc = "infra"
    /\ current > Len(candidates) \/ canceled
    /\ pc' = "normalize"
    /\ current' = 1
    /\ UNCHANGED << ranges, config, zone_scores, outputs, final_runs, infra_weights_list, census_weights_list, error, candidates, shadow >>

\* The call of normalize_and_weight_scores (lines 650-653), static model.
StaticNormalize ==
    /\ pc = "normalize"
    /\ evaluation_type = 0
    /\ candidates' = Static_normalize_and_weight_scores(
            candidates, infra_layers, census_vars, infra_weights_list, census_weights_list)
    /\ shadow' = Static_normalize_and_weight_scores(
            shadow, infra_layers, census_vars, infra_weights_list, census_weights_list)
    /\ pc' = "finalize"
    /\ UNCHANGED << ranges, config, zone_scores, outputs, final_runs, infra_weights_list, census_weights_list, error, current >>

\* The call of normalize_and_weight_scores, mobile model.
MobileNormalize ==
    /\ pc = "normalize"
    /\ evaluation_type = 1
    /\ candidates' = Mobile_normalize_and_weight_scores(
            candidates, infra_layers, census_vars, infra_weights_list, census_weights_list)
    /\ shadow' = Mobile_normalize_and_weight_scores(
            shadow, infra_layers, census_vars, infra_weights_list, census_weights_list)
    /\ pc' = "finalize"
    /\ UNCHANGED << ranges, config, zone_scores, outputs, final_runs, infra_weights_list, census_weights_list, error, current >>

\* calculate_final_scores of the run's model.
calculate_final_scores(cands) ==
    IF evaluation_type = 0 THEN Static_calculate_final_scores(cands)
    ELSE Mobile_calculate_final_scores(cands)

\* ------------------------------------------------------- output attributes

\* variable.endswith("_score")
EndsWithScore(variable) == variable \in {"pop_score", "pop_score_score", "income_score"}

\* feature_name = f'Candidate {feature_id}' of a candidate layer without a
\* name field; the string is represented by the id it is built from.
FeatureName(feature_id) == feature_id

RECURSIVE StaticInfraAttributes(_, _)
\* for infra_type, info in self.infrastructures.items(), static candidate
StaticInfraAttributes(c, i) ==
    IF i > Len(c.infrastructures.keys) THEN <<>>
    ELSE LET info == c.infrastructures.val[i]
             outage_costs == DictGet(c.outage_costs, c.infrastructures.keys[i], <<>>)
         IN  << info.count, info.raw_score, info.weighted_score, SumSeq(outage_costs) >>
             \o StaticInfraAttributes(c, i + 1)

RECURSIVE MobileInfraAttributes(_, _)
\* for infra_name, data in self.infrastructures.items(), mobile candidate
MobileInfraAttributes(c, i) ==
    IF i > Len(c.infrastructures.keys) THEN <<>>
    ELSE LET data == c.infrastructures.val[i]
         IN  << data.count, data.raw_score, data.final_score >>
             \o MobileInfraAttributes(c, i + 1)

RECURSIVE CensusAttributes(_, _)
\* for variable, value in self.census_data.items(): the keys that end with
\* "_score" are skipped.
CensusAttributes(c, i) ==
    IF i > Len(c.census_data.keys) THEN <<>>
    ELSE LET variable == c.census_data.keys[i]
         IN  (IF EndsWithScore(variable) THEN <<>>
              ELSE << c.census_data.val[i], DictGet(c.census_scores, variable, 0) >>)
             \o CensusAttributes(c, i + 1)

\* static Candidate.generate_output_attributes
Static_generate_output_attributes(c) ==
    << c.id, FeatureName(c.id) >>
    \o StaticInfraAttributes(c, 1)
    \o << c.total_infra_score, SumCostsFrom(c, 1) >>
    \o CensusAttributes(c, 1)
    \o DictValues(c.critical_zones)
    \o << c.total_zone_score, c.total_census_score, c.final_score >>

\* mobile Candidate.generate_output_attributes
Mobile_generate_output_attributes(c) ==
    << c.id, FeatureName(c.id) >>
    \o MobileInfraAttributes(c, 1)
    \o << c.total_infra_score >>
    \o CensusAttributes(c, 1)
    \o DictValues(c.critical_zones)
    \o << c.total_zone_score, SumSeq(DictValues(c.census_scores)), c.final_score >>

\* generate_output_attributes of the run's model.
generate_output_attributes(c) ==
    IF evaluation_type = 0 THEN Static_generate_output_attributes(c)
    ELSE Mobile_generate_output_attributes(c)

\* The call of calculate_final_scores (line 654).
CalculateFinalScores ==
    /\ pc = "finalize"
    /\ candidates' = calculate_final_scores(candidates)
    /\ shadow' = calculate_final_scores(shadow)
    /\ pc' = "output"
    /\ final_runs' = final_runs + 1
    /\ UNCHANGED << ranges, config, zone_scores, outputs, infra_weights_list, census_weights_list, error, current >>

\* A second call of calculate_final_scores on the finalized candidates.
RecalculateFinalScores ==
    /\ pc = "output"
    /\ final_runs < MaxFinalRuns
    /\ candidates' = calculate_final_scores(candidates)
    /\ shadow' = calculate_final_scores(shadow)
    /\ final_runs' = final_runs + 1
    /\ UNCHANGED << ranges, pc, config, zone_scores, outputs, infra_weights_list, census_weights_list, error, current >>

Next ==
    \/ InitializeCandidate
    \/ CandidatesInitialized
    \/ ValidateWeights
    \/ ProcessCensus(CensusHitChoices)
    \/ CensusProcessed
    \/ EvaluateCriticalZones(ZoneHitChoices)
    \/ StaticEvaluateInfrastructure(StaticMeasureChoices)
    \/ MobileEvaluateInfrastructure(MobileMeasureChoices)
    \/ InfrastructureEvaluated
    \/ StaticNormalize
    \/ MobileNormalize
    \/ CalculateFinalScores

Spec == Init /\ [][Next]_vars


\* --------------------------------------------- weight validation on its own

\* The pieces the weight strings of the validation runs are made of.
WeightPieces == {"0.3", "0.4", "0.5", "0.298", "0.3335", Comma, "x"}

\* The strings of at most n pieces.
Strings(n) == UNION { [1..k -> WeightPieces] : k \in 0..n }

\* A run on an empty candidate layer that has reached weight validation,
\* with any weight strings and one or two infrastructure layers and no or
\* one census variable.
InitWeights ==
    /\ pc = "weights"
    /\ evaluation_type = 0
    /\ distance_method = 1
    /\ infra_layers \in { SubSeq(InfraLayerNames, 1, n) : n \in 1..2 }
    /\ census_vars \in { <<>>, <<"pop">> }
    /\ zone_layers = ZoneLayerNames
    /\ zone_scores = ParseList(<<"-0.5", ",", "1.0">>)
    /\ infra_weights \in Strings(MaxInfraStr)
    /\ census_weights \in Strings(MaxCensusStr)
    /\ outage_cos = OutageA
    /\ outage_cos2 = outage_cos
    /\ infra_weights_list = <<>>
    /\ census_weights_list = <<>>
    /\ error = "none"
    /\ candidates = <<>>
    /\ shadow = <<>>
    /\ current = 1
    /\ final_runs = 0
    /\ params = ValidParams
    /\ sink = <<>>
    /\ reported = {}
    /\ canceled = FALSE
    /\ ranges = NoRanges

NextWeights == ValidateWeights

SpecWeights == InitWeights /\ [][NextWeights]_vars

\* The weights the strings denote, and their grand total.
GivenInfra == ParseList(infra_weights)
GivenCensus == ParseList(census_weights)
GrandTotal == SumSeq(GivenInfra) + SumSeq(GivenCensus)

\* The strings parse, and into as many weights as there are layers and variables.
WellFormed == AllNumeric(infra_weights) /\ AllNumeric(census_weights)
CountsMatch == Len(GivenInfra) = Len(infra_layers) /\ Len(GivenCensus) = Len(census_vars)
Validated == pc # "weights" /\ pc # "init_candidates"

\* Every returned weight is the given weight times 1/sum, or the given weight
\* itself when the sum is 1.0.
ScaledBySum ==
    /\ Len(infra_weights_list) = Len(GivenInfra)
    /\ Len(census_weights_list) = Len(GivenCensus)
    /\ \A i \in 1..Len(GivenInfra) :
          infra_weights_list[i] = IF GrandTotal = Unit THEN GivenInfra[i]
                                  ELSE FMul(GivenInfra[i], FDiv(Unit, GrandTotal))
    /\ \A i \in 1..Len(GivenCensus) :
          census_weights_list[i] = IF GrandTotal = Unit THEN GivenCensus[i]
                                   ELSE FMul(GivenCensus[i], FDiv(Unit, GrandTotal))

ReturnedTotal == SumSeq(infra_weights_list) + SumSeq(census_weights_list)

C2_WeightSumError ==
    (Validated /\ WellFormed /\ CountsMatch)
        => (error = "WeightSumError" <=> Abs(GrandTotal - Unit) > Unit \div 1000)

\* C2's case: "0.5,0.5" with "0.5" -- the infrastructure list alone sums to
\* 1.0, the grand total does not, and the weights are rejected.
C2_Witness ==
    /\ Validated /\ error = "WeightSumError"
    /\ WellFormed /\ CountsMatch
    /\ SumSeq(GivenInfra) = Unit
    /\ GrandTotal = Unit + Unit \div 2

\* C3: a non-numeric token in either string gives MalformedInput whatever
\* the counts and the sum are; numeric strings with a length that differs
\* from its expected count give CountMismatch whatever the sum is; neither
\* returns weights.
C3_MalformedThenCount ==
    Validated =>
        /\ ~WellFormed =>
              error = "MalformedInput" /\ infra_weights_list = <<>> /\ census_weights_list = <<>>
        /\ (WellFormed /\ ~CountsMatch) =>
              error = "CountMismatch" /\ infra_weights_list = <<>> /\ census_weights_list = <<>>

\* C3's case: a string with a non-numeric token and the wrong number of
\* tokens is rejected as malformed.
C3_Witness ==
    /\ Validated /\ error = "MalformedInput"
    /\ Len(Split(infra_weights)) # Len(infra_layers)
    /\ \E i \in 1..Len(Split(infra_weights)) : Split(infra_weights)[i] = <<"x">>


\* ------------------------------------------------ normalization and weighting

SetMin(S) == CHOOSE x \in S : \A y \in S : x <= y
SetMax(S) == CHOOSE x \in S : \A y \in S : x >= y

\* The run has passed normalize_and_weight_scores / calculate_final_scores.
Normalized == error = "none" /\ pc \in {"finalize", "output"}
Finalized == error = "none" /\ pc = "output"

Cands == 1..Len(candidates)
Layers == 1..Len(infra_layers)
CensusVars == 1..Len(census_vars)

\* Candidate j's entry for layer i, and the weighted score stored in it.
Entry(j, i) == EntryOf(candidates[j], infra_layers[i])
Weighted(e) == IF evaluation_type = 0 THEN e.weighted_score ELSE e.final_score

\* The raw scores of layer i over all candidates, and of all layers together.
LayerRaw(i) == { Entry(j, i).raw_score : j \in Cands }
PooledRaw == UNION { LayerRaw(i) : i \in Layers }

\* (raw - lo) / (hi - lo) clamped to [0, 1]; 1.0 for a positive score and 0.0
\* otherwise when hi = lo.
ScaledInto(raw, lo, hi) ==
    IF hi = lo THEN (IF raw > 0 THEN Unit ELSE 0)
    ELSE Max2(0, Min2(Unit, FDiv(raw - lo, hi - lo)))

\* C4 as stated: in the static model every layer's scores are scaled into
\* the range of that layer's raw scores over all candidates (1.0 for a
\* positive score and 0.0 otherwise when the range is empty), and the
\* weighted score is the normalized score times the layer's weight.
C4_PerLayerRange ==
    (evaluation_type = 0 /\ Normalized) =>
        \A j \in Cands : \A i \in Layers :
            /\ Entry(j, i).normalized_score =
                  ScaledInto(Entry(j, i).raw_score, SetMin(LayerRaw(i)), SetMax(LayerRaw(i)))
            /\ Entry(j, i).weighted_score =
                  FMul(Entry(j, i).normalized_score, infra_weights_list[i])

\* C4, amended: the range is one range, over the raw scores of every
\* candidate and every infrastructure layer together.
C4_PooledRange ==
    (evaluation_type = 0 /\ Normalized) =>
        \A j \in Cands : \A i \in Layers :
            /\ Entry(j, i).normalized_score =
                  ScaledInto(Entry(j, i).raw_score, SetMin(PooledRaw), SetMax(PooledRaw))
            /\ Entry(j, i).weighted_score =
                  FMul(Entry(j, i).normalized_score, infra_weights_list[i])

\* C4's case: a static run whose layers have different ranges, with a score
\* strictly inside the range.
C4_Witness ==
    /\ evaluation_type = 0 /\ Normalized
    /\ \E i \in Layers : SetMin(LayerRaw(i)) # SetMin(PooledRaw)
    /\ \E j \in Cands : \E i \in Layers :
          0 < Entry(j, i).normalized_score /\ Entry(j, i).normalized_score < Unit

\* The durations that are not the sentinel.
FiniteDurations == { d \in PooledRaw : d # Inf }

\* What a mobile raw score normalizes to.
InvertedInto(raw) ==
    IF raw = Inf THEN 0
    ELSE IF SetMax(FiniteDurations) = SetMin(FiniteDurations) THEN Unit
    ELSE Max2(0, Min2(Unit, FDiv(SetMax(FiniteDurations) - raw,
                                 SetMax(FiniteDurations) - SetMin(FiniteDurations))))

C6_WithinWeight ==
    Normalized =>
        \A j \in Cands :
            /\ \A i \in Layers :
                  /\ 0 <= Weighted(Entry(j, i))
                  /\ Weighted(Entry(j, i)) <= infra_weights_list[i]
                  /\ evaluation_type = 0 =>
                        (0 <= Entry(j, i).normalized_score /\ Entry(j, i).normalized_score <= Unit)
            /\ \A k \in CensusVars :
                  /\ 0 <= DictGet(candidates[j].census_scores, census_vars[k], 0)
                  /\ DictGet(candidates[j].census_scores, census_vars[k], 0) <= census_weights_list[k]

\* --------------------------------------------------------------- final scores

\* The weighted scores stored in the candidate's infrastructure entries.
StoredWeighted(c) ==
    [i \in 1..Len(c.infrastructures.val) |-> Weighted(c.infrastructures.val[i])]

\* C7: after calculate_final_scores the three totals are the sums of the
\* stored weighted infrastructure scores, weighted census scores and zone
\* modifiers, and the final score is the sum of the three totals.
C7_FinalScore ==
    Finalized =>
        \A j \in Cands :
            LET c == candidates[j]
            IN  /\ c.total_infra_score = SumSeq(StoredWeighted(c))
                /\ c.total_census_score = SumSeq(DictValues(c.census_scores))
                /\ c.total_zone_score = SumSeq(DictValues(c.critical_zones))
                /\ c.final_score = c.total_infra_score + c.total_census_score + c.total_zone_score

\* C7's case: a finalized mobile candidate with a positive infrastructure
\* total, a positive census total and a negative zone modifier.
C7_Witness ==
    /\ Finalized /\ evaluation_type = 1
    /\ \E j \in Cands :
          /\ candidates[j].total_infra_score > 0
          /\ candidates[j].total_census_score > 0
          /\ candidates[j].total_zone_score < 0

\* The run with a second call of calculate_final_scores.
NextRerun == Next \/ RecalculateFinalScores

SpecRerun == Init /\ [][NextRerun]_vars

\* The aggregates of every candidate.
Totals ==
    [j \in Cands |->
        << candidates[j].final_score, candidates[j].total_infra_score,
           candidates[j].total_census_score, candidates[j].total_zone_score,
           IF evaluation_type = 0 THEN candidates[j].total_outage_cost_savings ELSE 0 >>]

\* C8: a further run of calculate_final_scores on finalized candidates
\* leaves every final score, total and outage cost saving as it was.
C8_Idempotent ==
    [][(final_runs >= 1 /\ final_runs' = final_runs + 1) => Totals' = Totals]_vars

\* C8's case: calculate_final_scores has run twice on a static candidate
\* with a final score and outage cost savings.
C8_Witness ==
    /\ final_runs = 2 /\ evaluation_type = 0
    /\ \E j \in Cands :
          candidates[j].final_score > 0 /\ candidates[j].total_outage_cost_savings > 0

\* The outage costs collected for a type.
Collected(c, infra_name) == DictGet(c.outage_costs, infra_name, <<>>)

\* C9: a static candidate's total outage cost savings is the sum of all
\* costs collected for the types whose weighted score is strictly positive.
C9_OutageSavings ==
    (evaluation_type = 0 /\ Finalized) =>
        \A j \in Cands :
            candidates[j].total_outage_cost_savings =
                SumSeq([i \in Layers |->
                          IF Entry(j, i).weighted_score > 0
                          THEN SumSeq(Collected(candidates[j], infra_layers[i]))
                          ELSE 0])

\* C9's case: costs were collected for a type whose weighted score is 0, and
\* for a type whose weighted score is positive.
C9_Witness ==
    /\ evaluation_type = 0 /\ Finalized
    /\ \E j \in Cands : \E i \in Layers :
          /\ Collected(candidates[j], infra_layers[i]) # <<>>
          /\ Entry(j, i).weighted_score = 0
    /\ \E j \in Cands : candidates[j].total_outage_cost_savings > 0

\* ------------------------------------------ two runs that differ in outage costs

\* The outage attributes of the paired runs: every feature has the field,
\* its value is a number, NULL, text or missing.
PairedOutage ==
    { o \in [InfraFeatureIds -> OutageValues] :
        o[1] \in {"50", "NULL"} /\ o[2] \in {"70", "abc"} /\ o[3] \in {"50", "None"} }

\* Two static runs on the same layers, weights and geometry, each with its
\* own outage attribute values.
InitPaired ==
    /\ pc = "init_candidates"
    /\ evaluation_type = 0
    /\ distance_method = 1
    /\ infra_layers = InfraLayerNames
    /\ zone_layers = ZoneLayerNames
    /\ zone_scores = ParseList(<<"-0.5", ",", "1.0">>)
    /\ census_vars = <<"pop">>
    /\ infra_weights = <<"0.3", ",", "0.3">>
    /\ census_weights = <<"0.4">>
    /\ outage_cos \in PairedOutage
    /\ outage_cos2 \in PairedOutage
    /\ infra_weights_list = <<>>
    /\ census_weights_list = <<>>
    /\ error = "none"
    /\ candidates = <<>>
    /\ shadow = <<>>
    /\ current = 1
    /\ final_runs = 0
    /\ params = ValidParams
    /\ sink = <<>>
    /\ reported = {}
    /\ canceled = FALSE
    /\ ranges = NoRanges

\* In the paired runs every candidate lies in the second census unit and in
\* the second feature of the first zone layer.
PairedCensusHits == { [k \in 1..Len(CensusUnits) |-> k = 2] }
PairedZoneHits ==
    { [z \in {ZoneLayerNames[i] : i \in 1..Len(ZoneLayerNames)} |->
          [f \in ZoneFeatureIds |-> z = "Z1" /\ f = 2]] }

NextPaired ==
    \/ InitializeCandidate
    \/ CandidatesInitialized
    \/ ValidateWeights
    \/ ProcessCensus(PairedCensusHits)
    \/ CensusProcessed
    \/ EvaluateCriticalZones(PairedZoneHits)
    \/ StaticEvaluateInfrastructure(StaticMeasureChoices)
    \/ InfrastructureEvaluated
    \/ StaticNormalize
    \/ CalculateFinalScores

SpecPaired == InitPaired /\ [][NextPaired]_vars

\* What the suitability score of a static candidate is made of.
ScoreView(c) ==
    << c.infrastructures.keys,
       [i \in 1..Len(c.infrastructures.val) |->
           << c.infrastructures.val[i].count, c.infrastructures.val[i].raw_score,
              c.infrastructures.val[i].normalized_score,
              c.infrastructures.val[i].weighted_score >>],
       c.total_infra_score, c.total_census_score, c.total_zone_score, c.final_score >>

\* C10: two static runs that differ only in the outage attribute values
\* give every candidate the same counts, raw, normalized and weighted
\* scores, totals and final score.
C10_OutageIndependent ==
    /\ Len(shadow) = Len(candidates)
    /\ \A j \in Cands : ScoreView(candidates[j]) = ScoreView(shadow[j])

\* C10's case: two finalized runs in which a candidate collected different
\* outage costs and has different outage cost savings.
C10_Witness ==
    /\ Finalized /\ evaluation_type = 0
    /\ outage_cos # outage_cos2
    /\ \E j \in Cands :
          /\ candidates[j].outage_costs # shadow[j].outage_costs
          /\ candidates[j].total_outage_cost_savings # shadow[j].total_outage_cost_savings
          /\ candidates[j].final_score > 0

\* ------------------------------------------------------------------ C11
\* The intersections of candidate j with the features of zone layer i.
ZoneHitsOf(hits, j, i) ==
    { f \in 1..Len(ZoneFeatures(zone_layers[i])) :
        hits[j][zone_layers[i]][ZoneFeatures(zone_layers[i])[f]] }

\* C11: after evaluate_critical_zones every candidate holds an entry for
\* every configured zone layer, whatever the number of features of the
\* layer, and the entry is 0 when no feature of the layer intersects the
\* candidate.  Stated of the step that runs evaluate_critical_zones, for
\* every intersection outcome that produces the step.
C11_OneEntryPerZone ==
    [][ pc = "zones" =>
          \A hits \in [Cands -> ZoneHitChoices] :
             (candidates' = evaluate_critical_zones(candidates, zone_layers, zone_scores, hits))
             => \A j \in Cands : \A i \in 1..Len(zone_layers) :
                   /\ DictHas(candidates'[j].critical_zones, zone_layers[i])
                   /\ (ZoneHitsOf(hits, j, i) = {}
                         => DictGet(candidates'[j].critical_zones, zone_layers[i], Inf) = 0) ]_vars

\* The same statement restricted to the zone layers that have features:
\* there the entry exists, is the layer's score when a feature intersects
\* and 0 otherwise.
C11_EntryForPopulatedZone ==
    [][ pc = "zones" =>
          \A hits \in [Cands -> ZoneHitChoices] :
             (candidates' = evaluate_critical_zones(candidates, zone_layers, zone_scores, hits))
             => \A j \in Cands : \A i \in 1..Len(zone_layers) :
                   ZoneFeatures(zone_layers[i]) # <<>> =>
                      /\ DictHas(candidates'[j].critical_zones, zone_layers[i])
                      /\ DictGet(candidates'[j].critical_zones, zone_layers[i], Inf) =
                            (IF ZoneHitsOf(hits, j, i) = {} THEN 0 ELSE zone_scores[i]) ]_vars

\* A candidate left without an entry for a configured zone layer.
C11_MissingEntry ==
    /\ pc = "infra"
    /\ \E j \in Cands : \E i \in 1..Len(zone_layers) :
          ~DictHas(candidates[j].critical_zones, zone_layers[i])

\* ------------------------------------------------------------------ C12
\* The features of layer i, by position, that intersect the buffer under the
\* measurement m.
InsideBuffer(m, i) ==
    { k \in 1..Len(InfraFeatures(infra_layers[i])) :
        m[InfraFeatures(infra_layers[i])[k]].intersects }

\* What a distance is worth: the part of the buffer radius it leaves.
Contribution(distance) ==
    IF distance >= buffer_distance_meters THEN 0 ELSE buffer_distance_meters - distance

RECURSIVE SumOver(_, _)
\* The sum of the function g over the finite set S.
SumOver(g, S) ==
    IF S = {} THEN 0
    ELSE LET x == CHOOSE y \in S : TRUE IN g[x] + SumOver(g, S \ {x})

\* The distances the services may report.
Distances ==
    UNION { { ms.distance : ms \in StaticMeasures(f) } \cup
            { ms.road : ms \in StaticMeasures(f) } : f \in InfraFeatureIds } \ {RoadRaised}

\* C12: in the static evaluate_infrastructure, for every candidate and
\* layer, count is the number of features of the layer that intersect the
\* buffer and rawScore is the sum, over exactly those features, of
\* max(0, bufferRadius - actualDistance); no contribution is negative and a
\* smaller distance never gives a smaller contribution.  Stated of the step
\* that evaluates one candidate, for every measurement that produces it.
C12_StaticRawScore ==
    [][ (pc = "infra" /\ evaluation_type = 0 /\ current <= Len(candidates)) =>
          /\ \A m \in StaticMeasureChoices :
               (candidates' = [candidates EXCEPT ![current] =
                    Static_evaluate_infrastructure(@, infra_layers, 1, buffer_distance_meters,
                                                   distance_method, m, outage_cos).c])
               => \A i \in Layers :
                     LET e == EntryOf(candidates'[current], infra_layers[i])
                         feats == InfraFeatures(infra_layers[i])
                         worth == [k \in InsideBuffer(m, i) |->
                                     Contribution(ActualDistance(m[feats[k]], distance_method))]
                     IN  /\ DictHas(candidates'[current].infrastructures, infra_layers[i])
                         /\ e.count = Cardinality(InsideBuffer(m, i))
                         /\ e.raw_score = SumOver(worth, InsideBuffer(m, i))
          /\ \A d1, d2 \in Distances :
               /\ FeatureScore(buffer_distance_meters, d1) >= 0
               /\ d1 <= d2 => FeatureScore(buffer_distance_meters, d1)
                                 >= FeatureScore(buffer_distance_meters, d2) ]_vars

\* A candidate evaluated with a feature inside the buffer that is farther
\* than the buffer radius next to one that is nearer: count 2, raw score
\* 600 from the nearer feature alone.
C12_Witness ==
    /\ pc = "infra" /\ evaluation_type = 0 /\ distance_method = 1 /\ current = 2
    /\ EntryOf(candidates[1], "L1").count = 2
    /\ EntryOf(candidates[1], "L1").raw_score = 600

\* ------------------------------------------------------------------ C16
\* The network-distance computation failed for the pair: the routing request
\* failed inside calculate_road_distance, or the call itself raised.
RoadFailed(ms) == ms.road \in {Inf, RoadRaised}

\* The distance the fallback policy promises: the Haversine distance when the
\* network distance failed, the road distance otherwise.
FallbackDistance(ms) == IF RoadFailed(ms) THEN ms.distance ELSE ms.road

\* C16: in the static model with the road method, whenever the network
\* distance of a candidate-feature pair fails, the Haversine distance of the
\* pair is the actualDistance of the feature's contribution.  Stated of the
\* step that evaluates one candidate, for every measurement that produces it.
C16_HaversineFallback ==
    [][ (pc = "infra" /\ evaluation_type = 0 /\ distance_method = 0
            /\ current <= Len(candidates)) =>
          \A m \in StaticMeasureChoices :
             (candidates' = [candidates EXCEPT ![current] =
                  Static_evaluate_infrastructure(@, infra_layers, 1, buffer_distance_meters,
                                                 distance_method, m, outage_cos).c])
             => \A i \in Layers :
                   LET feats == InfraFeatures(infra_layers[i])
                       worth == [k \in InsideBuffer(m, i) |->
                                   Contribution(FallbackDistance(m[feats[k]]))]
                   IN  EntryOf(candidates'[current], infra_layers[i]).raw_score
                          = SumOver(worth, InsideBuffer(m, i)) ]_vars

\* The fallback the code has: the Haversine distance is used when
\* calculate_road_distance raises; a failed routing request is answered
\* with an infinite distance and the feature contributes 0.
C16_FallbackOnRaiseOnly ==
    [][ (pc = "infra" /\ evaluation_type = 0 /\ distance_method = 0
            /\ current <= Len(candidates)) =>
          \A m \in StaticMeasureChoices :
             (candidates' = [candidates EXCEPT ![current] =
                  Static_evaluate_infrastructure(@, infra_layers, 1, buffer_distance_meters,
                                                 distance_method, m, outage_cos).c])
             => \A i \in Layers :
                   LET feats == InfraFeatures(infra_layers[i])
                       worth == [k \in InsideBuffer(m, i) |->
                                   IF m[feats[k]].road = Inf THEN 0
                                   ELSE Contribution(FallbackDistance(m[feats[k]]))]
                   IN  EntryOf(candidates'[current], infra_layers[i]).raw_score
                          = SumOver(worth, InsideBuffer(m, i)) ]_vars

\* ------------------------------------------------------------------ C13
\* The features of layer i, by position, for which the routing service
\* returned a duration that is present and positive.
ValidDurations(m, i) ==
    { k \in 1..Len(InfraFeatures(infra_layers[i])) :
        LET ms == m[InfraFeatures(infra_layers[i])[k]]
        IN  ms.kind = "eta" /\ ms.duration > 0 }

\* The features of layer i whose geometry test raised.
GeometryRaised(m, i) ==
    { k \in 1..Len(InfraFeatures(infra_layers[i])) :
        m[InfraFeatures(infra_layers[i])[k]].kind = "geom_error" }

\* The mobile evaluation of the current candidate under the measurement m.
MobileStep(m) ==
    candidates' = [candidates EXCEPT ![current] =
                      Mobile_evaluate_infrastructure(@, infra_layers, 1, m)]

\* C13: in the mobile evaluate_infrastructure, for every candidate and
\* layer, a feature whose duration is missing or non-positive or whose
\* routing or geometry step raises is excluded from count and from the
\* duration sum; count is the number of features whose durations were
\* added; and the layer is recorded as count 0, rawScore +infinity,
\* totalDuration 0 exactly when no feature yielded a valid duration,
\* otherwise rawScore = totalDuration = the sum of the valid durations.
C13_ValidDurationsOnly ==
    [][ (pc = "infra" /\ evaluation_type = 1 /\ current <= Len(candidates)) =>
          \A m \in MobileMeasureChoices :
             MobileStep(m) => \A i \in Layers :
                LET e == EntryOf(candidates'[current], infra_layers[i])
                    feats == InfraFeatures(infra_layers[i])
                    V == ValidDurations(m, i)
                    durations == [k \in V |-> m[feats[k]].duration]
                IN  /\ e.count = Cardinality(V)
                    /\ (V = {}) <=> (e.count = 0 /\ e.raw_score = Inf /\ e.total_duration = 0)
                    /\ V # {} => /\ e.raw_score = SumOver(durations, V)
                                 /\ e.total_duration = SumOver(durations, V) ]_vars

\* What the code records: the sentinel when the valid durations do not
\* outnumber the geometry tests that raised, otherwise the sum of all valid
\* durations with a count short by the number of those tests.
C13_CountsGeometryErrors ==
    [][ (pc = "infra" /\ evaluation_type = 1 /\ current <= Len(candidates)) =>
          \A m \in MobileMeasureChoices :
             MobileStep(m) => \A i \in Layers :
                LET e == EntryOf(candidates'[current], infra_layers[i])
                    feats == InfraFeatures(infra_layers[i])
                    V == ValidDurations(m, i)
                    G == GeometryRaised(m, i)
                    durations == [k \in V |-> m[feats[k]].duration]
                IN  IF Cardinality(V) > Cardinality(G)
                    THEN /\ e.count = Cardinality(V) - Cardinality(G)
                         /\ e.raw_score = SumOver(durations, V)
                         /\ e.total_duration = SumOver(durations, V)
                    ELSE e.count = 0 /\ e.raw_score = Inf /\ e.total_duration = 0 ]_vars

\* ------------------------------------------------------------------ C17
RECURSIVE LayoutInfra(_, _)
\* One group for every configured infrastructure layer from i on, in the
\* order the layers were supplied.
LayoutInfra(c, i) ==
    IF i > Len(infra_layers) THEN <<>>
    ELSE LET e == EntryOf(c, infra_layers[i])
         IN  (IF evaluation_type = 0
              THEN << e.count, e.raw_score, e.weighted_score,
                      SumSeq(DictGet(c.outage_costs, infra_layers[i], <<>>)) >>
              ELSE << e.count, e.raw_score, e.final_score >>)
             \o LayoutInfra(c, i + 1)

RECURSIVE LayoutCensus(_, _)
\* One (rawValue, weightedScore) group for every census variable from i on.
LayoutCensus(c, i) ==
    IF i > Len(census_vars) THEN <<>>
    ELSE << DictGet(c.census_data, census_vars[i], 0),
            DictGet(c.census_scores, census_vars[i], 0) >>
         \o LayoutCensus(c, i + 1)

\* One modifier for every configured zone layer.
LayoutZones(c) == [i \in 1..Len(zone_layers) |-> DictGet(c.critical_zones, zone_layers[i], 0)]

\* The number of attributes of the fixed layout.
LayoutLength ==
    2 + (IF evaluation_type = 0 THEN 4 ELSE 3) * Len(infra_layers)
      + (IF evaluation_type = 0 THEN 2 ELSE 1)
      + 2 * Len(census_vars) + Len(zone_layers) + 3

\* The fixed positional layout of a candidate's output attributes.
Layout(c) ==
    << c.id, FeatureName(c.id) >>
    \o LayoutInfra(c, 1)
    \o (IF evaluation_type = 0 THEN << c.total_infra_score, SumCostsFrom(c, 1) >>
        ELSE << c.total_infra_score >>)
    \o LayoutCensus(c, 1)
    \o LayoutZones(c)
    \o << c.total_zone_score, c.total_census_score, c.final_score >>

\* C17: for every finalized candidate generate_output_attributes returns
\* the fixed positional layout, one group for every configured layer and
\* variable in the order supplied, so the lists of all candidates of a run
\* have the same length and each value the same position.
C17_FixedLayout ==
    Finalized =>
       \A j \in Cands :
          /\ Len(generate_output_attributes(candidates[j])) = LayoutLength
          /\ generate_output_attributes(candidates[j]) = Layout(candidates[j])

\* The weaker statement that the candidates of one run emit lists of the
\* same length.
C17_SameLength ==
    Finalized =>
       \A j, k \in Cands :
          Len(generate_output_attributes(candidates[j]))
             = Len(generate_output_attributes(candidates[k]))

\* The infrastructure part alone: one group per configured layer, in the
\* order supplied.
C17_InfraGroups ==
    Finalized =>
       \A j \in Cands :
          candidates[j].infrastructures.keys = infra_layers

\* ------------------------------------------------------------------ C18
\* C18: a MalformedInput, CountMismatch or WeightSumError of weight
\* validation aborts the run before any candidate processing: when the
\* error is raised no Candidate has been created.
C18_NoCandidateAtAbort ==
    [][ (pc = "weights" /\ error' # "none") => candidates = <<>> ]_vars

\* What the code guarantees at that moment: the candidates exist as their
\* constructors left them, no score field has been written.
C18_OnlyConstructed ==
    (pc = "aborted" /\ error # "none") =>
       \A j \in Cands :
          candidates[j] = IF evaluation_type = 0 THEN StaticCandidate(candidates[j].id)
                          ELSE MobileCandidate(candidates[j].id)

\* ------------------------------------------------------------------ C20
\* Two mobile runs on the same layers, weights and geometry; in the second
\* run the routing service answers one candidate-feature pair with a
\* shorter duration.

\* What the services answer for feature f in the first of the two runs.
MonoMeasures(f) ==
    CASE f = 1 -> { [kind |-> "eta", duration |-> 100],
                    [kind |-> "eta", duration |-> 300] }
      [] f = 2 -> { [kind |-> "outside", duration |-> 0],
                    [kind |-> "eta", duration |-> 200] }
      [] OTHER -> { [kind |-> "eta", duration |-> 200],
                    [kind |-> "eta", duration |-> 300],
                    [kind |-> "eta_error", duration |-> 0] }

MonoMeasureChoices ==
    { m \in [InfraFeatureIds -> UNION {MonoMeasures(f) : f \in InfraFeatureIds}] :
        \A f \in InfraFeatureIds : m[f] \in MonoMeasures(f) }

\* The shorter durations calculate_eta may return in the second run.
MonoDurations == {0, 50, 100, 200}

\* The measurements that differ from m in one returned duration, which is
\* shorter.
Faster(m) ==
    { [m EXCEPT ![f].duration = d] :
        f \in { g \in InfraFeatureIds : m[g].kind = "eta" },
        d \in MonoDurations }

InitMono ==
    /\ pc = "init_candidates"
    /\ evaluation_type = 1
    /\ distance_method = 1
    /\ infra_layers = InfraLayerNames
    /\ zone_layers = ZoneLayerNames
    /\ zone_scores = ParseList(<<"-0.5", ",", "1.0">>)
    /\ census_vars = <<"pop">>
    /\ \E w \in { [infra |-> <<"0.3", ",", "0.3">>, census |-> <<"0.4">>],
                  [infra |-> <<"-0.5", ",", "1.0">>, census |-> <<"0.5">>] } :
          infra_weights = w.infra /\ census_weights = w.census
    /\ outage_cos = OutageA
    /\ outage_cos2 = OutageA
    /\ infra_weights_list = <<>>
    /\ census_weights_list = <<>>
    /\ error = "none"
    /\ candidates = <<>>
    /\ shadow = <<>>
    /\ current = 1
    /\ final_runs = 0
    /\ params = ValidParams
    /\ sink = <<>>
    /\ reported = {}
    /\ canceled = FALSE
    /\ ranges = NoRanges

\* One pass of the infrastructure loop in both runs.  The second run sees
\* the same answers, except that for one pair of the whole run the duration
\* is shorter.
MobileEvaluateInfrastructurePair ==
    /\ pc = "infra"
    /\ evaluation_type = 1
    /\ current <= Len(candidates)
    /\ ~canceled
    /\ \E m \in MonoMeasureChoices :
          \E m2 \in {m} \cup (IF shadow = candidates
                              THEN { x \in Faster(m) :
                                       \E f \in InfraFeatureIds : x[f].duration < m[f].duration }
                              ELSE {}) :
             /\ candidates' = [candidates EXCEPT ![current] =
                   Mobile_evaluate_infrastructure(@, infra_layers, 1, m)]
             /\ shadow' = [shadow EXCEPT ![current] =
                   Mobile_evaluate_infrastructure(@, infra_layers, 1, m2)]
    /\ current' = current + 1
    /\ UNCHANGED << ranges, pc, config, zone_scores, outputs, final_runs, infra_weights_list, census_weights_list, error >>

NextMono ==
    \/ InitializeCandidate
    \/ CandidatesInitialized
    \/ ValidateWeights
    \/ ProcessCensus(PairedCensusHits)
    \/ CensusProcessed
    \/ EvaluateCriticalZones(PairedZoneHits)
    \/ MobileEvaluateInfrastructurePair
    \/ InfrastructureEvaluated
    \/ MobileNormalize
    \/ CalculateFinalScores

SpecMono == InitMono /\ [][NextMono]_vars

\* The entry of candidate j for layer i in the second run.
Entry2(j, i) == EntryOf(shadow[j], infra_layers[i])

\* The weighted score moved as a normalized score that did not decrease
\* moves it: up under a weight that is not negative, down under one that is
\* not positive.
NotWorse(j, i) ==
    /\ infra_weights_list[i] >= 0 => Entry2(j, i).final_score >= Entry(j, i).final_score
    /\ infra_weights_list[i] <= 0 => Entry2(j, i).final_score <= Entry(j, i).final_score

\* C20: with every other duration held fixed, a shorter duration returned
\* for one feature of a candidate never decreases the candidate's normalized
\* (and hence weighted) score for the layer of the feature.
C20_Monotone ==
    Normalized =>
       \A j \in Cands : \A i \in Layers :
          Entry2(j, i).raw_score # Entry(j, i).raw_score => NotWorse(j, i)

\* C20 for the durations that stay valid: when the shorter duration is
\* still positive, so that the layer counts as many features in both runs,
\* the normalized score of the layer does not decrease.
C20_MonotoneWhileValid ==
    Normalized =>
       \A j \in Cands : \A i \in Layers :
          (Entry2(j, i).raw_score # Entry(j, i).raw_score
             /\ Entry2(j, i).count = Entry(j, i).count) => NotWorse(j, i)

\* C20's case: a layer of a candidate whose duration sum is shorter in the
\* second run, with as many valid features, and whose weighted score there
\* is higher.
C20_Witness ==
    /\ Normalized
    /\ \E j \in Cands : \E i \in Layers :
          /\ Entry2(j, i).count = Entry(j, i).count
          /\ Entry2(j, i).raw_score < Entry(j, i).raw_score
          /\ infra_weights_list[i] > 0
          /\ Entry2(j, i).final_score > Entry(j, i).final_score

\* ------------------------------------------- the whole run, with its failures

\* The parameter sets of the runs: the valid one, and one for each check of
\* the setup that it fails.
RunParams ==
    { ValidParams,
      [ValidParams EXCEPT !.zone_scores = <<"-0.5", ",", "x">>],
      [ValidParams EXCEPT !.zone_scores = <<"1.0">>],
      [ValidParams EXCEPT !.candidates_layer = FALSE],
      [ValidParams EXCEPT !.buffer_distance = 0],
      [ValidParams EXCEPT !.coverage_area = "missing"],
      [ValidParams EXCEPT !.coverage_area = "empty"],
      [ValidParams EXCEPT !.sink_created = FALSE] }

\* The state when processAlgorithm is entered.
InitRun ==
    /\ pc = "setup"
    /\ evaluation_type \in {0, 1}
    /\ distance_method = 1
    /\ params \in RunParams
    /\ infra_layers \in IF params = ValidParams THEN {InfraLayerNames, <<>>}
                        ELSE {InfraLayerNames}
    /\ zone_layers = ZoneLayerNames
    /\ zone_scores = <<>>
    /\ census_vars = <<"pop">>
    /\ infra_weights \in IF params = ValidParams /\ infra_layers # <<>>
                         THEN { <<"0.3", ",", "0.3">>, <<"0.5", ",", "0.5">> }
                         ELSE { <<"0.3", ",", "0.3">> }
    /\ census_weights = <<"0.4">>
    /\ outage_cos = OutageA
    /\ outage_cos2 = OutageA
    /\ infra_weights_list = <<>>
    /\ census_weights_list = <<>>
    /\ error = "none"
    /\ candidates = <<>>
    /\ shadow = <<>>
    /\ current = 1
    /\ final_runs = 0
    /\ sink = <<>>
    /\ reported = {}
    /\ canceled = FALSE
    /\ ranges = NoRanges

\* The checks of lines 482-546, in their order: the first that fails names
\* the QgsProcessingException that ends the run.
SetupError ==
    IF ~AllNumeric(params.zone_scores) THEN "ZoneScoreError"
    ELSE IF ~params.candidates_layer THEN "NoCandidatesLayer"
    ELSE IF infra_layers = <<>> THEN "NoInfrastructureLayers"
    ELSE IF Len(zone_layers) # Len(ParseList(params.zone_scores)) THEN "ZoneCountMismatch"
    ELSE IF evaluation_type = 0 /\ params.buffer_distance <= 0 THEN "BufferDistance"
    ELSE IF evaluation_type # 0 /\ params.coverage_area = "missing" THEN "NoCoverageArea"
    ELSE IF evaluation_type # 0 /\ params.coverage_area = "empty" THEN "EmptyCoverageArea"
    ELSE IF ~params.sink_created THEN "NoSink"
    ELSE "none"

\* The setup of the run (lines 470-561): parameters are read and checked and
\* the sink is created; a failed check ends the run.
Setup ==
    /\ pc = "setup"
    /\ error' = SetupError
    /\ pc' = IF SetupError = "none" THEN "init_candidates" ELSE "aborted"
    /\ zone_scores' = IF AllNumeric(params.zone_scores)
                      THEN ParseList(params.zone_scores) ELSE zone_scores
    /\ reported' = IF SetupError = "none" THEN reported ELSE reportError(reported, "run", 0)
    /\ UNCHANGED << ranges, config, sink, canceled, final_runs, infra_weights_list,
                    census_weights_list, candidates, shadow, current >>

\* A pass of the loop that creates the candidates in which the constructor
\* raises (lines 579-581): the error is reported and the feature skipped.
InitializeCandidateFails ==
    /\ pc = "init_candidates"
    /\ current <= NumCandidates
    /\ ~canceled
    /\ reported' = reportError(reported, "init", current)
    /\ current' = current + 1
    /\ UNCHANGED << ranges, pc, config, zone_scores, sink, canceled, final_runs, infra_weights_list,
                    census_weights_list, error, candidates, shadow >>

\* What the services answer for feature f in these runs, static model; the
\* geometry step of a feature may raise.
RunStaticMeasures(f) ==
    CASE f = 1 -> { [intersects |-> TRUE, distance |-> 400, road |-> 600, raises |-> FALSE],
                    [intersects |-> TRUE, distance |-> 400, road |-> 600, raises |-> TRUE] }
      [] f = 2 -> { [intersects |-> FALSE, distance |-> 1500, road |-> 1800, raises |-> FALSE],
                    [intersects |-> TRUE, distance |-> 400, road |-> 600, raises |-> FALSE] }
      [] OTHER -> { [intersects |-> TRUE, distance |-> 300, road |-> 500, raises |-> FALSE],
                    [intersects |-> TRUE, distance |-> 300, road |-> 500, raises |-> TRUE] }

RunStaticMeasureChoices ==
    { m \in [InfraFeatureIds -> UNION {RunStaticMeasures(f) : f \in InfraFeatureIds}] :
        \A f \in InfraFeatureIds : m[f] \in RunStaticMeasures(f) }

\* The same for the mobile model.
RunMobileMeasures(f) ==
    CASE f = 1 -> { [kind |-> "eta", duration |-> 100],
                    [kind |-> "point_error", duration |-> 0] }
      [] f = 2 -> { [kind |-> "outside", duration |-> 0],
                    [kind |-> "eta", duration |-> 300] }
      [] OTHER -> { [kind |-> "eta", duration |-> 300],
                    [kind |-> "eta_error", duration |-> 0] }

RunMobileMeasureChoices ==
    { m \in [InfraFeatureIds -> UNION {RunMobileMeasures(f) : f \in InfraFeatureIds}] :
        \A f \in InfraFeatureIds : m[f] \in RunMobileMeasures(f) }

\* The candidates when a loop over them raised at candidate j: those before
\* j as the loop left them (done), j and those after it untouched.
UpTo(done, cands, j) == [k \in 1..Len(cands) |-> IF k < j THEN done[k] ELSE cands[k]]

\* normalize_and_weight_scores of the run's model.
normalize_and_weight_scores(cands) ==
    IF evaluation_type = 0
    THEN Static_normalize_and_weight_scores(cands, infra_layers, census_vars,
                                            infra_weights_list, census_weights_list)
    ELSE Mobile_normalize_and_weight_scores(cands, infra_layers, census_vars,
                                            infra_weights_list, census_weights_list)

\* normalize_and_weight_scores raises while it handles candidate j.  Neither
\* model catches the exception for the candidate (the mobile one logs and
\* re-raises, lines 280-282); processAlgorithm reports it and re-raises
\* (lines 655-657), which ends the run.
NormalizeFails ==
    /\ pc = "normalize"
    /\ \E j \in Cands :
          /\ candidates' = UpTo(normalize_and_weight_scores(candidates), candidates, j)
          /\ shadow' = UpTo(normalize_and_weight_scores(shadow), shadow, j)
    /\ error' = "ScoreError"
    /\ pc' = "aborted"
    /\ reported' = reportError(reported, "run", 0)
    /\ UNCHANGED << ranges, config, zone_scores, sink, canceled, final_runs, infra_weights_list,
                    census_weights_list, current >>

\* The static calculate_final_scores raises while it handles candidate j:
\* its loop has no try (static_model.py lines 281-303), processAlgorithm
\* reports and re-raises.
StaticFinalizeFails ==
    /\ pc = "finalize"
    /\ evaluation_type = 0
    /\ \E j \in Cands :
          /\ candidates' = UpTo(Static_calculate_final_scores(candidates), candidates, j)
          /\ shadow' = UpTo(Static_calculate_final_scores(shadow), shadow, j)
    /\ error' = "ScoreError"
    /\ pc' = "aborted"
    /\ reported' = reportError(reported, "run", 0)
    /\ UNCHANGED << ranges, config, zone_scores, sink, canceled, final_runs, infra_weights_list,
                    census_weights_list, current >>

\* The body of the mobile calculate_final_scores for a candidate when it
\* raises: before the zone total was stored, or after the scores were
\* stored (stored); the handler logs and sets final_score = 0
\* (mobile_model.py lines 365-368).
Mobile_final_score_failed(c, stored) ==
    [(IF stored THEN Mobile_final_score(c) ELSE c) EXCEPT !.final_score = 0]

\* The mobile calculate_final_scores with the candidates of F raising.
MobileFinalizeFails ==
    /\ pc = "finalize"
    /\ evaluation_type = 1
    /\ \E F \in SUBSET Cands \ {{}} :
          \E stored \in [Cands -> BOOLEAN] :
             /\ \A j \in Cands \ F : ~stored[j]
             /\ candidates' = [j \in Cands |->
                   IF j \in F THEN Mobile_final_score_failed(candidates[j], stored[j])
                   ELSE Mobile_final_score(candidates[j])]
             /\ shadow' = [j \in Cands |->
                   IF j \in F THEN Mobile_final_score_failed(shadow[j], stored[j])
                   ELSE Mobile_final_score(shadow[j])]
             /\ reported' = reported \cup { [stage |-> "finalize", id |-> candidates[j].id] : j \in F }
    /\ pc' = "output"
    /\ final_runs' = final_runs + 1
    /\ UNCHANGED << ranges, config, zone_scores, sink, canceled, infra_weights_list,
                    census_weights_list, error, current >>

\* A sink that stores the feature twice.
addFeature_twice(features, feat) == Append(Append(features, feat), feat)

\* sink.addFeature(feat, QgsFeatureSink.FastInsert) that succeeds.
addFeature(features, feat) == Append(features, feat)

\* What a pass of the output loop may meet (lines 662-688): the feature is
\* written; the static candidate has no buffer or an invalid one;
\* generate_output_attributes raises; addFeature returns False.
OutputOutcomes ==
    IF evaluation_type = 0
    THEN {"written", "no_buffer", "invalid_buffer", "attributes_raise", "add_failed"}
    ELSE {"written", "attributes_raise", "add_failed"}

\* The candidate after generate_output_attributes returned: the mobile one
\* has recomputed its total census score (calculate_total_census_score).
AfterAttributes(c) ==
    IF evaluation_type = 0 THEN c
    ELSE [c EXCEPT !.total_census_score = SumSeq(DictValues(c.census_scores))]

\* A pass of the output loop that does not poll the cancellation signal.
WriteOutput_unpolled ==
    /\ pc = "output"
    /\ current <= Len(candidates)
    /\ \E outcome \in OutputOutcomes :
          /\ sink' = IF outcome = "written"
                     THEN addFeature(sink,
                             [id |-> candidates[current].id,
                              attributes |-> generate_output_attributes(candidates[current])])
                     ELSE sink
          /\ reported' = IF outcome = "written" THEN reported
                         ELSE reportError(reported, "output", candidates[current].id)
          /\ candidates' = IF outcome \in {"written", "add_failed"}
                           THEN [candidates EXCEPT ![current] = AfterAttributes(@)]
                           ELSE candidates
          /\ shadow' = IF outcome \in {"written", "add_failed"}
                       THEN [shadow EXCEPT ![current] = AfterAttributes(@)]
                       ELSE shadow
    /\ current' = current + 1
    /\ UNCHANGED << ranges, pc, config, zone_scores, canceled, final_runs, infra_weights_list,
                    census_weights_list, error >>

\* One pass of the output loop (lines 659-692).
WriteOutput ==
    /\ pc = "output"
    /\ current <= Len(candidates)
    /\ ~canceled
    /\ \E outcome \in OutputOutcomes :
          /\ sink' = IF outcome = "written"
                     THEN addFeature(sink,
                             [id |-> candidates[current].id,
                              attributes |-> generate_output_attributes(candidates[current])])
                     ELSE sink
          /\ reported' = IF outcome = "written" THEN reported
                         ELSE reportError(reported, "output", candidates[current].id)
          /\ candidates' = IF outcome \in {"written", "add_failed"}
                           THEN [candidates EXCEPT ![current] = AfterAttributes(@)]
                           ELSE candidates
          /\ shadow' = IF outcome \in {"written", "add_failed"}
                       THEN [shadow EXCEPT ![current] = AfterAttributes(@)]
                       ELSE shadow
    /\ current' = current + 1
    /\ UNCHANGED << ranges, pc, config, zone_scores, canceled, final_runs, infra_weights_list,
                    census_weights_list, error >>

\* The end of the output loop and the return of processAlgorithm
\* (lines 694-695).
OutputWritten ==
    /\ pc = "output"
    /\ current > Len(candidates) \/ canceled
    /\ pc' = "done"
    /\ UNCHANGED << ranges, config, zone_scores, outputs, final_runs, infra_weights_list,
                    census_weights_list, error, candidates, shadow, current >>

\* The caller cancels the run; the loops over the candidates poll the signal
\* at the head of each pass.
Cancel ==
    /\ pc \notin {"setup", "done", "aborted"}
    /\ ~canceled
    /\ canceled' = TRUE
    /\ UNCHANGED << ranges, pc, config, zone_scores, sink, reported, final_runs, infra_weights_list,
                    census_weights_list, error, candidates, shadow, current >>

\* evaluate_critical_zones raises at the first intersection test of
\* candidate j.  The evaluators loop over the candidates without a try
\* (static_model.py 95-110, mobile_model.py 100-115) and processAlgorithm
\* wraps the whole call (lines 616-622): the candidates before j keep their
\* modifiers, j and the candidates after it are not evaluated, the error is
\* reported and the run continues with the infrastructure loop.
EvaluateCriticalZonesFails ==
    /\ pc = "zones"
    /\ \E i \in 1..Len(zone_layers) : ZoneFeatures(zone_layers[i]) # <<>>
    /\ \E j \in 1..Len(candidates) :
          \E hits \in [1..Len(candidates) -> PairedZoneHits] :
             /\ candidates' = UpTo(evaluate_critical_zones(candidates, zone_layers,
                                                           zone_scores, hits),
                                   candidates, j)
             /\ shadow' = UpTo(evaluate_critical_zones(shadow, zone_layers,
                                                       zone_scores, hits),
                               shadow, j)
    /\ reported' = reportError(reported, "zones", 0)
    /\ pc' = "infra"
    /\ UNCHANGED << ranges, config, zone_scores, sink, canceled, final_runs, infra_weights_list,
                    census_weights_list, error, current >>

NextRun ==
    \/ Setup
    \/ InitializeCandidate
    \/ InitializeCandidateFails
    \/ CandidatesInitialized
    \/ ValidateWeights
    \/ ProcessCensus(PairedCensusHits)
    \/ CensusProcessed
    \/ EvaluateCriticalZones(PairedZoneHits)
    \/ EvaluateCriticalZonesFails
    \/ StaticEvaluateInfrastructure(RunStaticMeasureChoices)
    \/ MobileEvaluateInfrastructure(RunMobileMeasureChoices)
    \/ InfrastructureEvaluated
    \/ StaticNormalize
    \/ MobileNormalize
    \/ NormalizeFails
    \/ CalculateFinalScores
    \/ StaticFinalizeFails
    \/ MobileFinalizeFails
    \/ WriteOutput
    \/ OutputWritten
    \/ Cancel

SpecRun == InitRun /\ [][NextRun]_vars

\* ------------------------------------------------------------------ C19

\* C19: a failure while measuring one infrastructure feature of a candidate
\* is recovered locally in both models: the evaluation goes on with the
\* candidate's remaining features and layers, so that after its pass of the
\* infrastructure loop the candidate holds a count and a raw score for every
\* infrastructure layer of the run.
C19_EveryLayerScored ==
    [][ (pc = "infra" /\ current' = current + 1)
          => \A i \in 1..Len(infra_layers) :
                DictHas(candidates'[current].infrastructures, infra_layers[i]) ]_vars

\* What the code does keep: a failed measurement never ends the run, and
\* the loop goes on with the next candidate.
C19_RunGoesOn ==
    [][ pc = "infra" => (pc' \in {"infra", "normalize"} /\ error' = error) ]_vars

\* What the mobile model keeps: every layer is scored whatever fails.
C19_MobileEveryLayerScored ==
    [][ (pc = "infra" /\ evaluation_type = 1 /\ current' = current + 1)
          => \A i \in 1..Len(infra_layers) :
                DictHas(candidates'[current].infrastructures, infra_layers[i]) ]_vars

\* ------------------------------------------------------------------ C15

\* The step is one in which normalizing or finalizing a candidate raised:
\* the phase is the normalization or the final aggregation and an error is
\* reported.
ScoreFailure == pc \in {"normalize", "finalize"} /\ reported' # reported

\* The ids of the candidates whose failure the step reports.
FailedIds == { r.id : r \in reported' \ reported }

\* C15: in both models a failure raised while normalizing or finalizing one
\* candidate is reported, does not propagate out of the run (which goes on
\* to emit the candidates), and sets the final score of a candidate to 0.
C15_FailureContained ==
    [][ ScoreFailure
          => /\ pc' # "aborted"
             /\ error' = "none"
             /\ \E j \in Cands : candidates'[j].final_score = 0 ]_vars

\* What the code keeps: in the final aggregation of the mobile model a
\* failure of a candidate is logged, the candidate's final score is 0, the
\* run goes on to the output, and every other candidate has its computed
\* scores.
C15_MobileFinalizeContained ==
    [][ (ScoreFailure /\ pc = "finalize" /\ evaluation_type = 1)
          => /\ pc' = "output"
             /\ error' = "none"
             /\ \A j \in Cands :
                   IF candidates[j].id \in FailedIds
                   THEN candidates'[j].final_score = 0
                   ELSE candidates'[j] = Mobile_final_score(candidates[j]) ]_vars

\* What the code does elsewhere: a failure of the normalization (either
\* model) or of the static final aggregation ends the run.
C15_OtherFailuresAbort ==
    [][ (ScoreFailure /\ ~(pc = "finalize" /\ evaluation_type = 1))
          => (pc' = "aborted" /\ error' # "none" /\ sink' = <<>>) ]_vars

\* ------------------------------------------------------------------ C14

\* The candidate at position j of the list was skipped by the output loop
\* with a reported error.
SkippedAtOutput(j) == [stage |-> "output", id |-> candidates[j].id] \in reported

\* The number of records of the sink that carry the id.
RecordsOf(id) == Cardinality({ i \in 1..Len(sink) : sink[i].id = id })

\* C14: a run either completes or aborts.  Whenever it has aborted (setup
\* validation, weight validation, a propagated scoring error) the sink is
\* empty.  At every moment the sink holds at most one record for a
\* candidate, none for a feature that was skipped at initialization or for a
\* candidate skipped at output, and its records follow the order of the
\* candidates; when the run has completed without being cancelled, every
\* candidate that was not skipped at output has exactly one record.
C14_OneRecordPerCandidate ==
    /\ pc = "aborted" => sink = <<>>
    /\ \A i \in 1..Len(sink) :
          \E j \in Cands : candidates[j].id = sink[i].id /\ ~SkippedAtOutput(j)
    /\ \A i, k \in 1..Len(sink) : i < k => sink[i].id < sink[k].id
    /\ (pc = "done" /\ ~canceled)
          => \A j \in Cands :
                RecordsOf(candidates[j].id) = IF SkippedAtOutput(j) THEN 0 ELSE 1

\* A run completed in which the first candidate was skipped at output and
\* the second was written.
C14_Witness ==
    /\ pc = "done"
    /\ ~canceled
    /\ Len(candidates) = 2
    /\ Len(sink) = 1
    /\ SkippedAtOutput(1)
    /\ sink[1].id = candidates[2].id

\* A run completed after a feature was skipped at initialization: the
\* only candidate has its record.
C14_WitnessInitSkip ==
    /\ pc = "done"
    /\ ~canceled
    /\ \E r \in reported : r.stage = "init"
    /\ Len(candidates) = 1
    /\ Len(sink) = 1

\* A run that aborted after candidates were constructed and evaluated.
C14_WitnessAbort == pc = "aborted" /\ Len(candidates) = 2 /\ error = "ScoreError"

\* ------------------------------------------------------------------ C21

\* The positions of key k in the ordered dictionary d.
KeyPositions(d, k) == { n \in 1..Len(d.keys) : d.keys[n] = k }

C21_ModifierKept ==
    \A j \in Cands : \A i \in 1..Len(zone_layers) :
       DictHas(candidates[j].critical_zones, zone_layers[i])
          => DictGet(candidates[j].critical_zones, zone_layers[i], Inf) \in {0, zone_scores[i]}

ComputeRanges ==
    /\ pc = "normalize"
    /\ ~ranges.computed
    /\ ranges' = [computed |-> TRUE,
                  infra |-> IF evaluation_type = 0
                            THEN StaticInfraRange(candidates, infra_layers)
                            ELSE MobileInfraRange(candidates, infra_layers),
                  census |-> CensusRanges(candidates, census_vars)]
    /\ current' = 1
    /\ UNCHANGED << pc, config, zone_scores, outputs, final_runs, infra_weights_list,
                    census_weights_list, error, candidates, shadow >>

\* A pass that reads the ranges again from the candidates as they are,
\* rewritten ones included, before it writes.
ApplyRanges_recomputing ==
    /\ pc = "normalize"
    /\ ranges.computed
    /\ current <= Len(candidates)
    /\ ranges' = [computed |-> TRUE,
                  infra |-> IF evaluation_type = 0
                            THEN StaticInfraRange(candidates, infra_layers)
                            ELSE MobileInfraRange(candidates, infra_layers),
                  census |-> CensusRanges(candidates, census_vars)]
    /\ candidates' = [candidates EXCEPT ![current] =
          IF evaluation_type = 0
          THEN StaticCensusApply(
                  StaticInfraApply(@, infra_layers, infra_weights_list, 1, ranges'.infra),
                  census_vars, census_weights_list, 1, ranges'.census)
          ELSE MobileCensusApply(
                  MobileInfraApply(@, infra_layers, infra_weights_list, 1, ranges'.infra, 0),
                  census_vars, census_weights_list, 1, ranges'.census, 0)]
    /\ current' = current + 1
    /\ UNCHANGED << pc, config, zone_scores, outputs, final_runs, infra_weights_list,
                    census_weights_list, error, shadow >>

\* One pass of the third loop (static_model.py lines 231-262,
\* mobile_model.py lines 258-317): the normalized and weighted fields of a
\* candidate are written from the ranges.  shadow keeps the candidates as
\* the measurement passes left them.
ApplyRanges ==
    /\ pc = "normalize"
    /\ ranges.computed
    /\ current <= Len(candidates)
    /\ candidates' = [candidates EXCEPT ![current] =
          IF evaluation_type = 0
          THEN StaticCensusApply(
                  StaticInfraApply(@, infra_layers, infra_weights_list, 1, ranges.infra),
                  census_vars, census_weights_list, 1, ranges.census)
          ELSE MobileCensusApply(
                  MobileInfraApply(@, infra_layers, infra_weights_list, 1, ranges.infra, 0),
                  census_vars, census_weights_list, 1, ranges.census, 0)]
    /\ current' = current + 1
    /\ UNCHANGED << ranges, pc, config, zone_scores, outputs, final_runs, infra_weights_list,
                    census_weights_list, error, shadow >>

\* The return of normalize_and_weight_scores.
RangesApplied ==
    /\ pc = "normalize"
    /\ ranges.computed
    /\ current > Len(candidates)
    /\ pc' = "finalize"
    /\ current' = 1
    /\ UNCHANGED << ranges, config, zone_scores, outputs, final_runs, infra_weights_list,
                    census_weights_list, error, candidates, shadow >>

NextBarrier ==
    \/ InitializeCandidate
    \/ CandidatesInitialized
    \/ ValidateWeights
    \/ ProcessCensus(CensusHitChoices)
    \/ CensusProcessed
    \/ EvaluateCriticalZones(PairedZoneHits)
    \/ StaticEvaluateInfrastructure(RunStaticMeasureChoices)
    \/ MobileEvaluateInfrastructure(RunMobileMeasureChoices)
    \/ InfrastructureEvaluated
    \/ ComputeRanges
    \/ ApplyRanges
    \/ RangesApplied

SpecBarrier == Init /\ [][NextBarrier]_vars

\* ------------------------------------------------------------------ C22

\* What the measurement passes write of a candidate, as the range loops
\* read it: count and raw score of every infrastructure layer.
MeasuredOf(c) ==
    [i \in 1..Len(infra_layers) |->
        IF DictHas(c.infrastructures, infra_layers[i])
        THEN << EntryOf(c, infra_layers[i]).count, EntryOf(c, infra_layers[i]).raw_score >>
        ELSE << 0, 0 >>]

\* The normalized and weighted fields of an infrastructure entry.
EntryScores(e) ==
    IF evaluation_type = 0 THEN << e.normalized_score, e.weighted_score >>
    ELSE << e.final_score >>

\* What normalize_and_weight_scores writes of a candidate; a layer without
\* an entry reads as the zeros a new entry is created with.
ScoredOf(c) ==
    << [i \in 1..Len(infra_layers) |->
           IF DictHas(c.infrastructures, infra_layers[i])
           THEN EntryScores(EntryOf(c, infra_layers[i]))
           ELSE EntryScores(IF evaluation_type = 0 THEN StaticEntry(FALSE) ELSE MobileEntry)],
       c.census_scores,
       IF evaluation_type = 0 THEN 0 ELSE c.total_infra_score,
       IF evaluation_type = 0 THEN 0 ELSE c.total_census_score >>

\* The step writes a measured field, or a scored field, of a candidate.
WritesMeasured == \E j \in Cands : MeasuredOf(candidates'[j]) # MeasuredOf(candidates[j])
WritesScored == \E j \in Cands : ScoredOf(candidates'[j]) # ScoredOf(candidates[j])

\* C22: normalization is a two-phase barrier.  The ranges are assigned once,
\* when every measurement pass has ended for every candidate, from the raw
\* scores and raw census values of the whole candidate list and without
\* writing a candidate; once they are assigned no measurement pass runs and
\* no count or raw score is written; every write of a normalized or weighted field happens with the
\* ranges assigned and leaves them as they are.
C22_Barrier ==
    [][ /\ (ranges' # ranges)
           => /\ ~ranges.computed
              /\ pc = "normalize"
              /\ Len(candidates) = NumCandidates
              /\ candidates' = candidates
              /\ candidates = shadow
              /\ ranges'.infra = (IF evaluation_type = 0
                                  THEN StaticInfraRange(shadow, infra_layers)
                                  ELSE MobileInfraRange(shadow, infra_layers))
              /\ ranges'.census = CensusRanges(shadow, census_vars)
        /\ ranges.computed => pc \in {"normalize", "finalize"}
        /\ WritesMeasured => (~ranges.computed /\ pc # "normalize")
        /\ WritesScored => (ranges.computed /\ ranges' = ranges)
        /\ ranges.computed
           => /\ shadow' = shadow
              /\ \A j \in Cands : MeasuredOf(candidates'[j]) = MeasuredOf(shadow[j]) ]_vars

\* The candidates the three loops leave are those of the one call of
\* normalize_and_weight_scores on the candidates as measured.
C22_SameAsOneCall ==
    pc = "finalize" => candidates = normalize_and_weight_scores(shadow)

\* The first candidate has been rewritten from a proper range and the
\* second not yet.
C22_Witness ==
    /\ pc = "normalize"
    /\ ranges.computed
    /\ ranges.infra.max > ranges.infra.min
    /\ current = 2
    /\ ScoredOf(candidates[1]) # ScoredOf(shadow[1])
    /\ candidates[2] = shadow[2]

\* ------------------------------------------------------------------ C23

\* The place of a stage in the order the claim gives to the passes.
ClaimedRank(stage) ==
    CASE stage = "infra" -> 1
      [] stage = "census" -> 2
      [] stage = "zones" -> 3
      [] stage = "normalize" -> 4
      [] stage = "finalize" -> 5
      [] OTHER -> 0

\* The place of a stage in the order of processAlgorithm.
CodeRank(stage) ==
    CASE stage = "census" -> 1
      [] stage = "zones" -> 2
      [] stage = "infra" -> 3
      [] stage = "normalize" -> 4
      [] stage = "finalize" -> 5
      [] OTHER -> 0

Passes == {"infra", "census", "zones", "normalize", "finalize"}

\* C23: no candidate field is written by two different passes: an entry of
\* the raw census values, which the census pass writes, is not written by
\* the normalization pass, and the other fields of the candidates are
\* written in the stage of their own pass only.
C23_OneWriterPerField ==
    [][ \A j \in Cands :
          /\ pc = "normalize"
                => \A n \in 1..Len(candidates[j].census_data.keys) :
                      DictGet(candidates'[j].census_data,
                              candidates[j].census_data.keys[n], Inf)
                         = candidates[j].census_data.val[n]
          /\ candidates'[j].critical_zones # candidates[j].critical_zones => pc = "zones"
          /\ candidates'[j].census_scores # candidates[j].census_scores => pc = "normalize"
          /\ MeasuredOf(candidates'[j]) # MeasuredOf(candidates[j]) => pc = "infra" ]_vars

\* C23 (order): the passes run in the order infrastructure, census, zones,
\* normalize/weight, finalize.
C23_ClaimedOrder ==
    [][ (pc \in Passes /\ pc' \in Passes) => ClaimedRank(pc) <= ClaimedRank(pc') ]_vars

\* The order the code runs them in: census, zones, infrastructure,
\* normalize/weight, finalize, each stage entered from the one before it.
C23_CodeOrder ==
    [][ (pc \in Passes /\ pc' \in Passes /\ pc' # pc) => CodeRank(pc') = CodeRank(pc) + 1 ]_vars

\* The same as C23_OneWriterPerField with the one exception the code has:
\* the normalization pass adds or overwrites the entries named
\* variable + "_score" of the raw census values.
C23_OneWriterButScoreKeys ==
    [][ \A j \in Cands :
          /\ pc = "normalize"
                => \A n \in 1..Len(candidates[j].census_data.keys) :
                      \/ DictGet(candidates'[j].census_data,
                                 candidates[j].census_data.keys[n], Inf)
                            = candidates[j].census_data.val[n]
                      \/ \E i \in 1..Len(census_vars) :
                            candidates[j].census_data.keys[n] = ScoreKey(census_vars[i])
          /\ candidates'[j].critical_zones # candidates[j].critical_zones => pc = "zones"
          /\ candidates'[j].census_scores # candidates[j].census_scores => pc = "normalize"
          /\ MeasuredOf(candidates'[j]) # MeasuredOf(candidates[j]) => pc = "infra" ]_vars

\* ------------------------------------------------------------------ C24

\* C24: in every state, every variable that is a key of a candidate's
\* weighted census-score map has a raw census value stored for that
\* candidate.
C24_ScoreHasRaw ==
    \A j \in Cands :
       \A n \in 1..Len(candidates[j].census_scores.keys) :
          DictHas(candidates[j].census_data, candidates[j].census_scores.keys[n])

\* What the code keeps: once normalize_and_weight_scores has run, every
\* candidate has a weighted score for every census variable of the run,
\* stored a second time in the raw-value map under variable + "_score".
C24_ScoreForEveryVariable ==
    \A j \in Cands :
       /\ Normalized
             => \A i \in 1..Len(census_vars) :
                   DictHas(candidates[j].census_scores, census_vars[i])
       /\ \A n \in 1..Len(candidates[j].census_scores.keys) :
             DictGet(candidates[j].census_data,
                     ScoreKey(candidates[j].census_scores.keys[n]), Inf)
                = candidates[j].census_scores.val[n]

\* ------------------------------------------------------------------ C25

\* The 'outage_cos' attribute of no feature: the layers have no such field.
NoOutageField == [f \in InfraFeatureIds |-> NoField]

\* C25: in the static evaluate_infrastructure the costs collected for an
\* infrastructure type are, in the order of the features, the numeric
\* outage costs of exactly the features that intersect the buffer, have a
\* strictly positive contribution and carry the attribute; a NULL, None or
\* non-numeric value is dropped without raising, and count and raw score
\* of the type are those of the same evaluation without any outage
\* attribute.  Stated of the step that evaluates one candidate, for every
\* measurement that produces it.
C25_OutageCollected ==
    [][ (pc = "infra" /\ evaluation_type = 0 /\ current <= Len(candidates)) =>
          \A m \in StaticMeasureChoices :
             LET r == Static_evaluate_infrastructure(candidates[current], infra_layers, 1,
                          buffer_distance_meters, distance_method, m, outage_cos)
                 bare == Static_evaluate_infrastructure(candidates[current], infra_layers, 1,
                          buffer_distance_meters, distance_method, m, NoOutageField)
             IN  (candidates' = [candidates EXCEPT ![current] = r.c])
                 => /\ ~r.raised
                    /\ \A i \in Layers :
                          LET Takes(f) ==
                                 /\ m[f].intersects
                                 /\ Contribution(ActualDistance(m[f], distance_method)) > 0
                                 /\ outage_cos[f] # NoField
                                 /\ outage_cos[f] \in DOMAIN OutageFloat
                              taken == SelectSeq(InfraFeatures(infra_layers[i]), Takes)
                          IN  /\ Collected(candidates'[current], infra_layers[i])
                                    = [n \in 1..Len(taken) |-> OutageFloat[outage_cos[taken[n]]]]
                              /\ EntryOf(candidates'[current], infra_layers[i]).count
                                    = EntryOf(bare.c, infra_layers[i]).count
                              /\ EntryOf(candidates'[current], infra_layers[i]).raw_score
                                    = EntryOf(bare.c, infra_layers[i]).raw_score ]_vars

\* A candidate evaluated against features whose outage values are NULL and
\* text in the first layer, both inside the buffer, and a number in the
\* second: nothing is collected for the first type, whose count is 2 and
\* whose raw score is positive, and the number for the second.
C25_Witness ==
    /\ pc = "infra" /\ evaluation_type = 0 /\ current = 2
    /\ outage_cos = OutageB
    /\ EntryOf(candidates[1], "L1").count = 2
    /\ EntryOf(candidates[1], "L1").raw_score > 0
    /\ Collected(candidates[1], "L1") = <<>>
    /\ Collected(candidates[1], "L2") = <<70>>

\* ------------------------------------------------------------------ C27

\* The infrastructure weights alone are acceptable: numeric, one per layer,
\* with a sum within the tolerance of 1.0.
InfraAloneValid ==
    /\ AllNumeric(infra_weights)
    /\ Len(GivenInfra) = Len(infra_layers)
    /\ WithinTolerance(SumSeq(GivenInfra))

\* C27: a configuration with infrastructure layers and no census variable
\* can be validated: with acceptable infrastructure weights and the empty
\* census weight string, validate_weights called with expected census count
\* 0 succeeds and returns an empty census list.
C27_NoCensusValidates ==
    (Validated /\ census_vars = <<>> /\ census_weights = <<>> /\ InfraAloneValid)
        => (error = "none" /\ census_weights_list = <<>>)

\* What the code does: with no census variable no census weight string is
\* accepted, whatever the infrastructure weights are; the empty string
\* fails as malformed, a numeric one by its count.
C27_NoCensusNeverValidates ==
    (Validated /\ census_vars = <<>>)
        => /\ error # "none"
           /\ census_weights = <<>> => error = "MalformedInput"
           /\ WellFormed => error = "CountMismatch"

\* ------------------------------------------------------------------ C26

\* The candidate has been through every pass: it has an entry for every
\* infrastructure layer and every zone layer with features, a weighted score
\* for every census variable, and its final aggregation is in place (a
\* further aggregation changes nothing); a pass that raised and was logged
\* (zones for the run, finalization for the candidate) counts as run.
PassedAll(c) ==
    /\ \A i \in 1..Len(infra_layers) : DictHas(c.infrastructures, infra_layers[i])
    /\ \/ \A i \in 1..Len(zone_layers) :
             ZoneFeatures(zone_layers[i]) # <<>> => DictHas(c.critical_zones, zone_layers[i])
       \/ [stage |-> "zones", id |-> 0] \in reported
    /\ \A i \in 1..Len(census_vars) : DictHas(c.census_scores, census_vars[i])
    /\ \/ calculate_final_scores(<<c>>)[1] = c
       \/ [stage |-> "finalize", id |-> c.id] \in reported

\* C26: when the cancellation signal becomes set, the step that sets it
\* changes nothing else; from then on the signal stays set, no record is
\* added to the sink, and the run is not ended by an error unless one is
\* reported in that step.  Every record that is added is added in the
\* output stage of a run that was never cancelled, for a candidate that has
\* been through every pass, and carries the attributes of that candidate.
C26_CancelOmits ==
    [][ /\ (canceled' /\ ~canceled)
           => (pc' = pc /\ error' = error /\ candidates' = candidates /\ sink' = sink
               /\ current' = current)
        /\ canceled
           => /\ canceled'
              /\ sink' = sink
              /\ (pc' = "aborted" /\ pc # "aborted") => reported' # reported
        /\ sink' # sink
           => /\ ~canceled
              /\ pc = "output"
              /\ current \in Cands
              /\ PassedAll(candidates[current])
              /\ sink' = Append(sink,
                    [id |-> candidates[current].id,
                     attributes |-> generate_output_attributes(candidates[current])]) ]_vars

\* A run that was cancelled in the output loop after the first of two
\* candidates was written, and has ended without error.
C26_Witness ==
    /\ pc = "done"
    /\ canceled
    /\ error = "none"
    /\ Len(candidates) = 2
    /\ Len(sink) = 1
    /\ sink[1].id = candidates[1].id

\* A run cancelled during the infrastructure loop: it has ended without
\* error and has emitted nothing, the evaluated first candidate included.
C26_WitnessEarly ==
    /\ pc = "done"
    /\ canceled
    /\ error = "none"
    /\ sink = <<>>
    /\ Len(candidates) = 2
    /\ EntryOf(candidates[1], infra_layers[1]).count > 0
    /\ EntryOf(candidates[2], infra_layers[1]).count = 0

\* ------------------------------------------------------------------ C28

\* The candidate has a modifier for every zone layer that has features.
HasZoneModifiers(c) ==
    \A i \in 1..Len(zone_layers) :
       ZoneFeatures(zone_layers[i]) # <<>> => DictHas(c.critical_zones, zone_layers[i])

\* The step is a zone evaluation in which an intersection test raised.
ZoneFailure == pc = "zones" /\ [stage |-> "zones", id |-> 0] \in reported' \ reported

\* C28: when the intersection test raises while the zones of one candidate
\* are evaluated, that candidate is the only one that may be left without
\* its zone modifiers: every other candidate has a modifier for every zone
\* layer when the zone step has ended.
C28_ZonesIsolated ==
    [][ ZoneFailure
          => Cardinality({ j \in 1..Len(candidates') :
                              ~HasZoneModifiers(candidates'[j]) }) <= 1 ]_vars

\* C28, as the code behaves: the failure ends the zone evaluation of the
\* whole list.  The candidate at which it was raised and every candidate
\* after it are left as they were, the candidates before it have their
\* modifiers, the failure is reported and the run goes on to the
\* infrastructure loop.
C28_FailureEndsZonePass ==
    [][ ZoneFailure
          => /\ pc' = "infra"
             /\ error' = error
             /\ \E j \in 1..Len(candidates) :
                   /\ \A k \in 1..Len(candidates) :
                         k >= j => candidates'[k] = candidates[k]
                   /\ \A k \in 1..Len(candidates) :
                         k < j => HasZoneModifiers(candidates'[k]) ]_vars

\* A run that has emitted two records after a zone failure at the first
\* candidate: neither candidate has a zone modifier.
C28_Witness ==
    /\ pc = "done"
    /\ [stage |-> "zones", id |-> 0] \in reported
    /\ Len(sink) = 2
    /\ \A j \in 1..Len(candidates) : candidates[j].critical_zones = EmptyDict

\* ------------------------------------------------------------------ C29

\* Every accepted weight of the run is non-negative.
NonNegativeWeights ==
    /\ \A i \in 1..Len(infra_weights_list) : infra_weights_list[i] >= 0
    /\ \A k \in 1..Len(census_weights_list) : census_weights_list[k] >= 0

\* Some census variable is named as the score key of another one.
ScoreKeyIsVariable ==
    \E k, l \in CensusVars : census_vars[l] = ScoreKey(census_vars[k])

\* C29: with accepted weights that are all non-negative, every finalized
\* candidate has 0 <= total_infra_score + total_census_score <= 1, and so
\* final_score - total_zone_score lies in [0, 1].
C29_UnitInterval ==
    (Finalized /\ NonNegativeWeights) =>
        \A j \in Cands :
            LET c == candidates[j]
            IN  /\ 0 <= c.total_infra_score + c.total_census_score
                /\ c.total_infra_score + c.total_census_score <= Unit
                /\ 0 <= c.final_score - c.total_zone_score
                /\ c.final_score - c.total_zone_score <= Unit

\* C29, as the code behaves: the final score less the zone total is always
\* the sum of the other two totals, and when no census variable is named as
\* the score key of another that sum lies between 0 and the sum of the
\* accepted weights.
C29_WithinWeightSum ==
    Finalized =>
        \A j \in Cands :
            LET c == candidates[j]
            IN  /\ c.final_score - c.total_zone_score
                      = c.total_infra_score + c.total_census_score
                /\ (NonNegativeWeights /\ ~ScoreKeyIsVariable)
                      => /\ 0 <= c.total_infra_score + c.total_census_score
                         /\ c.total_infra_score + c.total_census_score
                               <= SumSeq(infra_weights_list) + SumSeq(census_weights_list)

\* A finalized static candidate under non-negative weights whose census
\* total is negative and outweighs its infrastructure total.
C29_Witness ==
    /\ Finalized /\ NonNegativeWeights /\ evaluation_type = 0
    /\ \E j \in Cands :
          /\ candidates[j].total_census_score < 0
          /\ candidates[j].total_infra_score + candidates[j].total_census_score < 0


\* C29 in the mobile model, whose normalization clamps every normalized
\* score: the sum of the two totals lies in [0, 1] in every checked run
\* with non-negative weights.
C29_MobileUnitInterval ==
    (Finalized /\ NonNegativeWeights /\ evaluation_type = 1) =>
        \A j \in Cands :
            /\ 0 <= candidates[j].total_infra_score + candidates[j].total_census_score
            /\ candidates[j].total_infra_score + candidates[j].total_census_score <= Unit

\* ------------------------------------------- evaluation run a second time

\* A static run in which evaluate_infrastructure is called twice in a row
\* for each candidate, next to the same run with a single call (shadow).
InitTwice == InitPaired /\ outage_cos2 = outage_cos

\* One pass of the infrastructure loop with two calls of the static
\* evaluate_infrastructure on the candidate, same layers, radius, method and
\* measurements; the shadow candidate gets the single call.
StaticEvaluateInfrastructureTwice(choices) ==
    /\ pc = "infra"
    /\ evaluation_type = 0
    /\ current <= Len(candidates)
    /\ ~canceled
    /\ \E m \in choices :
          LET r == Static_evaluate_infrastructure(candidates[current], infra_layers, 1,
                        buffer_distance_meters, distance_method, m, outage_cos)
              rr == Static_evaluate_infrastructure(r.c, infra_layers, 1,
                        buffer_distance_meters, distance_method, m, outage_cos)
              r2 == Static_evaluate_infrastructure(shadow[current], infra_layers, 1,
                        buffer_distance_meters, distance_method, m, outage_cos2)
          IN  /\ candidates' = [candidates EXCEPT ![current] = rr.c]
              /\ shadow' = [shadow EXCEPT ![current] = r2.c]
              /\ reported' = IF r.raised \/ rr.raised
                             THEN reportError(reported, "infra", candidates[current].id)
                             ELSE reported
    /\ current' = current + 1
    /\ UNCHANGED << ranges, pc, config, zone_scores, sink, canceled, final_runs, infra_weights_list,
                    census_weights_list, error >>

NextTwice ==
    \/ InitializeCandidate
    \/ CandidatesInitialized
    \/ ValidateWeights
    \/ ProcessCensus(PairedCensusHits)
    \/ CensusProcessed
    \/ EvaluateCriticalZones(PairedZoneHits)
    \/ StaticEvaluateInfrastructureTwice(StaticMeasureChoices)
    \/ InfrastructureEvaluated
    \/ StaticNormalize
    \/ CalculateFinalScores

SpecTwice == InitTwice /\ [][NextTwice]_vars

\* ------------------------------------------------------------------ C30

\* The static candidate's entry for a type, a type without entry read as
\* the entry the candidate creates on first use.
StaticEntryOf(c, infra_name) == DictGet(c.infrastructures, infra_name, StaticEntry(TRUE))

\* C30: a candidate on which the static evaluate_infrastructure has run
\* twice has, for every infrastructure type, the count, the raw score and
\* the collected outage costs of the candidate on which it has run once,
\* and so the same total outage cost savings.
C30_Idempotent ==
    \A j \in Cands :
       /\ \A i \in Layers :
             LET twice == StaticEntryOf(candidates[j], infra_layers[i])
                 once == StaticEntryOf(shadow[j], infra_layers[i])
             IN  /\ twice.count = once.count
                 /\ twice.raw_score = once.raw_score
                 /\ twice.outage_costs = once.outage_costs
       /\ candidates[j].outage_costs = shadow[j].outage_costs
       /\ candidates[j].total_outage_cost_savings = shadow[j].total_outage_cost_savings

\* C30, as the code behaves: count and raw score are assigned by each call
\* and equal those of a single call, and with them every score of the
\* candidate; the outage costs are appended by each call, so every list is
\* the single call's list twice over and the total savings are doubled.
C30_ScoresSameCostsTwice ==
    \A j \in Cands :
       /\ ScoreView(candidates[j]) = ScoreView(shadow[j])
       /\ candidates[j].outage_costs.keys = shadow[j].outage_costs.keys
       /\ \A i \in Layers :
             LET once == StaticEntryOf(shadow[j], infra_layers[i]).outage_costs
             IN  /\ StaticEntryOf(candidates[j], infra_layers[i]).outage_costs = once \o once
                 /\ DictGet(candidates[j].outage_costs, infra_layers[i], <<>>)
                       = DictGet(shadow[j].outage_costs, infra_layers[i], <<>>)
                         \o DictGet(shadow[j].outage_costs, infra_layers[i], <<>>)
       /\ candidates[j].total_outage_cost_savings
             = 2 * shadow[j].total_outage_cost_savings

\* A finalized candidate evaluated twice whose first type has collected the
\* costs 50, 70, 50, 70 where a single evaluation collects 50, 70.
C30_Witness ==
    /\ Finalized
    /\ \E j \in Cands :
          /\ StaticEntryOf(shadow[j], infra_layers[1]).outage_costs = <<50, 70>>
          /\ StaticEntryOf(candidates[j], infra_layers[1]).outage_costs = <<50, 70, 50, 70>>
          /\ StaticEntryOf(candidates[j], infra_layers[1]).count = 2
          /\ shadow[j].total_outage_cost_savings = 120
          /\ candidates[j].total_outage_cost_savings = 240

=============================================================================
